---- MODULE Spec2Model ----
(***************************************************************************)
(* A model of ocrdesktop's text reconstruction (ocr.py) and of its macro   *)
(* recorder / player and main-window controller (macro.py, gui.py).        *)
(*                                                                         *)
(* Strings the program inspects character by character are sequences of    *)
(* one-character strings.  SpecText drives the reconstruction pass, Spec   *)
(* drives one session of the main window with its background tasks.        *)
(***************************************************************************)
EXTENDS Integers, Sequences, FiniteSets, TLC

VARIABLES
    images,        \* the OCR engine's output so far: one record list per image
    ocr_pc,        \* "ocr" while images are being recognized, "done" after process_images
    call,          \* the arguments process_images was called with
    ocr_text,      \* OCRDesktopApp._ocr_text (ReconstructedText)
    word_list,     \* OCRDesktopApp._word_list
    pyatspi,       \* platform.pyatspi is not None: the input interface is there
    preclick_active,          \* the Preclick check menu item's state
    save_to_macro,            \* MainWindow._save_to_macro (armed)
    keyboard_overlay_active,  \* MainWindow._keyboard_overlay_active (send-key mode)
    listener,      \* _on_send_key is registered as the global keystroke listener
    last_event,    \* the last key event delivered to the listener
    nkeys,         \* number of key events delivered to the listener
    session_armed, \* history: the armed flag when send-key mode was last entered
    visible,       \* the main window is shown (not hidden)
    gtk_main_running,         \* MainWindow._gtk_main_running
    main_loop,     \* Gtk.main() of the main window has not been quit
    dialog,        \* the modal dialog that is open, "none" if none
    macro_file,    \* the active log ~/.activeOCRMacro.ocrm: existence and lines
    macro_finished,           \* MacroManager._macro_finished
    threads,       \* the background tasks started so far
    injected,      \* what the tasks did to the input interface, in order
    app_pc,        \* OCRDesktopApp.run: where the main thread is
    hide_gui,      \* the -n option (or no GTK)
    mgr_shown,     \* the window of the startup manager is shown
    enabled,       \* ColorDetector._enabled
    max_colors,    \* ColorDetector._max_colors
    scipy_available,          \* platform.scipy_available
    webcolors_available,      \* platform.webcolors_available
    kdt_db,        \* ColorDetector._kdt_db is built
    color_cache,   \* ColorDetector._color_cache
    color_call,    \* the arguments of the last call of get_color_string
    color_ret,     \* how that call ended
    ncalls,        \* number of calls of get_color_string
    load_args,     \* the arguments of the -m options parsed so far, in order
    load_before,   \* the active log before the last -m option was parsed
    load_raised,   \* the last call of load_macro_file raised
    ui_available   \* platform.ui_available: GTK could be imported

text_vars == <<images, ocr_pc, call, ocr_text, word_list>>

ctrl_vars == <<pyatspi, preclick_active, save_to_macro, keyboard_overlay_active,
               listener, last_event, nkeys, session_armed, visible, gtk_main_running,
               main_loop, dialog, macro_file, macro_finished, threads, injected>>

app_vars == <<app_pc, hide_gui, mgr_shown>>

color_vars == <<enabled, max_colors, scipy_available, webcolors_available, kdt_db,
                color_cache, color_call, color_ret, ncalls>>

load_vars == <<load_args, load_before, load_raised, ui_available>>

vars == <<images, ocr_pc, call, ocr_text, word_list, pyatspi, preclick_active,
          save_to_macro, keyboard_overlay_active, listener, last_event, nkeys,
          session_armed, visible, gtk_main_running, main_loop, dialog, macro_file,
          macro_finished, threads, injected, app_pc, hide_gui, mgr_shown,
          enabled, max_colors, scipy_available, webcolors_available, kdt_db,
          color_cache, color_call, color_ret, ncalls, load_args, load_before,
          load_raised, ui_available>>

----------------------------------------------------------------------------
(* Bounds of the model *)

MaxImages == 2
MaxWords == 3
MaxKeys == 2

----------------------------------------------------------------------------
(* Characters and strings *)

NL == "\n"
SP == " "

\* str.isspace() of one character, the regex class \s
IsSpace(c) == c \in {" ", "\t", "\n", "\r"}

\* the regex class [^\S\r\n]
IsBlank(c) == IsSpace(c) /\ c \notin {"\r", "\n"}

\* `not word_text or word_text.isspace()`
IsSkipped(word_text) ==
    \/ word_text = <<>>
    \/ \A i \in 1..Len(word_text) : IsSpace(word_text[i])

\* s[from:]
Drop(s, n) == SubSeq(s, n + 1, Len(s))

\* length of the longest prefix of s whose characters satisfy the class
RECURSIVE BlankRun(_)
BlankRun(s) == IF s = <<>> \/ ~IsBlank(Head(s)) THEN 0 ELSE 1 + BlankRun(Tail(s))

RECURSIVE SpaceRun(_)
SpaceRun(s) == IF s = <<>> \/ ~IsSpace(Head(s)) THEN 0 ELSE 1 + SpaceRun(Tail(s))

\* index of the last newline among the first n characters of s, 0 if none
LastNewline(s, n) ==
    LET idx == {i \in 1..n : s[i] = NL}
    IN IF idx = {} THEN 0 ELSE CHOOSE i \in idx : \A j \in idx : j <= i

\* re.compile(r'[^\S\r\n]{2,}').sub(' ', text)
RECURSIVE SubDoubleSpaces(_)
SubDoubleSpaces(s) ==
    IF s = <<>> THEN <<>>
    ELSE LET n == BlankRun(s)
         IN IF n >= 2 THEN <<SP>> \o SubDoubleSpaces(Drop(s, n))
            ELSE <<Head(s)>> \o SubDoubleSpaces(Tail(s))

\* re.compile(r'\n\s*\n').sub('\n', text)
RECURSIVE SubEmptyLines(_)
SubEmptyLines(s) ==
    IF s = <<>> THEN <<>>
    ELSE IF Head(s) = NL
         THEN LET rest == Tail(s)
                  k == LastNewline(rest, SpaceRun(rest))
              IN IF k > 0 THEN <<NL>> \o SubEmptyLines(Drop(rest, k))
                 ELSE <<NL>> \o SubEmptyLines(rest)
         ELSE <<Head(s)>> \o SubEmptyLines(Tail(s))

\* re.compile(r'\s*\n').sub('\n', text)
RECURSIVE SubEndingSpaces(_)
SubEndingSpaces(s) ==
    IF s = <<>> THEN <<>>
    ELSE LET k == LastNewline(s, SpaceRun(s))
         IN IF k > 0 THEN <<NL>> \o SubEndingSpaces(Drop(s, k))
            ELSE <<Head(s)>> \o SubEndingSpaces(Tail(s))

\* re.compile(r'^\s').sub('\n', text)
SubLeadingSpace(s) ==
    IF s # <<>> /\ IsSpace(Head(s)) THEN <<NL>> \o Tail(s) ELSE s

\* re.compile(r'$\n').sub('', text): without MULTILINE, $ matches before a final newline
SubEndingNewline(s) ==
    IF s # <<>> /\ s[Len(s)] = NL THEN SubSeq(s, 1, Len(s) - 1) ELSE s

\* re.compile(r'\n\s').sub('\n', text)
RECURSIVE SubSpaceAfterNewline(_)
SubSpaceAfterNewline(s) ==
    IF s = <<>> THEN <<>>
    ELSE IF Head(s) = NL /\ Len(s) >= 2 /\ IsSpace(s[2])
         THEN <<NL>> \o SubSpaceAfterNewline(Drop(s, 2))
         ELSE <<Head(s)>> \o SubSpaceAfterNewline(Tail(s))

\* `if text: text = text[:-1]`
DropLast(s) == IF s # <<>> THEN SubSeq(s, 1, Len(s) - 1) ELSE s

\* OCRProcessor._clean_text
CleanText(text) ==
    DropLast(SubSpaceAfterNewline(SubEndingNewline(SubLeadingSpace(
        SubEndingSpaces(SubEmptyLines(SubDoubleSpaces(text)))))))

----------------------------------------------------------------------------
(* The OCR engine's records (pytesseract image_to_data, one per box) *)

ScaleFactor == 3

\* (page_num, block_num, par_num, line_num) of the records of one image, in
\* the engine's reading order
Tuples == {<<1, 1, 1, 1>>, <<1, 1, 1, 2>>, <<1, 2, 1, 1>>}

\* recognized texts: empty (a page, block or line box), whitespace-only, words
Texts == {<<>>, <<SP>>, <<"a">>, <<"b", "c">>}

\* bounding boxes in raster pixels: of each word, and of a box that is no word
BoxOf(text) ==
    CASE text = <<"a">> -> [left |-> 30, top |-> 0, width |-> 61, height |-> 30]
      [] text = <<"b", "c">> -> [left |-> 0, top |-> 45, width |-> 24, height |-> 45]
      [] OTHER -> [left |-> 0, top |-> 0, width |-> 300, height |-> 90]

\* confidence in tenths of a percent, -1 for a box that is no word
ConfOf(text) == IF IsSkipped(text) THEN -10 ELSE 965

Records ==
    {[text |-> t, page_num |-> h[1], block_num |-> h[2], par_num |-> h[3],
      line_num |-> h[4], left |-> BoxOf(t).left, top |-> BoxOf(t).top,
      width |-> BoxOf(t).width, height |-> BoxOf(t).height,
      conf |-> ConfOf(t)] : t \in Texts, h \in Tuples}

TupleOf(w) == <<w.page_num, w.block_num, w.par_num, w.line_num>>

\* lexicographic order of hierarchy tuples
TupleLeq(a, b) ==
    \/ a = b
    \/ \E i \in 1..4 : a[i] < b[i] /\ \A j \in 1..(i - 1) : a[j] = b[j]

----------------------------------------------------------------------------
(* OCRProcessor._process_ocr_words *)

NoLast == <<-1, -1, -1, -1>>

\* a line break only where the line number changes
LineChangedLineOnly(last, w) == last[4] # w.line_num

\* the condition of the line break
LineChanged(last, w) ==
    \/ last[1] # w.page_num
    \/ last[2] # w.block_num
    \/ last[3] # w.par_num
    \/ last[4] # w.line_num

\* the separator written before a word
Separator(last, w) ==
    IF last[4] # -1
    THEN (IF LineChanged(last, w) THEN <<NL>> ELSE <<SP>>)
    ELSE <<>>

\* round(n / d, 0) for n >= 0, d > 0: to the nearest, a tie to the even one
Round(n, d) ==
    LET q == n \div d
        r == n % d
    IN IF 2 * r < d THEN q
       ELSE IF 2 * r > d THEN q + 1
       ELSE IF q % 2 = 0 THEN q ELSE q + 1

\* round(height / 3 * 0.78, 0)
FontSize(height) == Round(height * 78, 300)

\* int(width / 2 + left), int(height / 2 + top): truncation of a non-negative float
XPos(w) == (w.width + 2 * w.left) \div 2
YPos(w) == (w.height + 2 * w.top) \div 2

\* int(float(conf)): truncation towards zero, conf in tenths
Conf(conf) == IF conf >= 0 THEN conf \div 10 ELSE -((-conf) \div 10)

\* one row of the word list
WordEntry(w, color) ==
    [text |-> w.text, fontsize |-> FontSize(w.height), color |-> color,
     kind |-> "text", x_pos |-> XPos(w), y_pos |-> YPos(w), conf |-> Conf(w.conf)]

\* the loop over the boxes, from box i on
RECURSIVE WordsLoop(_, _, _, _, _, _)
WordsLoop(ocr_words, i, text, words, last, include_word_list) ==
    IF i > Len(ocr_words)
    THEN [text |-> text \o <<NL>>, word_list |-> words]
    ELSE LET w == ocr_words[i]
         IN IF IsSkipped(w.text)
            THEN WordsLoop(ocr_words, i + 1, text, words, last, include_word_list)
            ELSE WordsLoop(ocr_words, i + 1,
                           text \o Separator(last, w) \o w.text,
                           IF include_word_list
                           THEN Append(words, WordEntry(w, "unknown"))
                           ELSE words,
                           TupleOf(w), include_word_list)

ProcessOcrWords(ocr_words, offset_x, offset_y, include_word_list) ==
    IF Len(ocr_words) = 0
    THEN [text |-> <<>>, word_list |-> <<>>]
    ELSE WordsLoop(ocr_words, 1, <<>>, <<>>, NoLast, include_word_list)

\* the loop of process_images over the images, from image i on
RECURSIVE ImagesLoop(_, _, _, _, _, _, _)
ImagesLoop(imgs, i, text, words, offset_x, offset_y, include_word_list) ==
    IF i > Len(imgs)
    THEN [ocr_text |-> CleanText(text), word_list |-> words]
    ELSE LET r == ProcessOcrWords(imgs[i], offset_x, offset_y, include_word_list)
         IN ImagesLoop(imgs, i + 1, text \o r.text, words \o r.word_list,
                       offset_x, offset_y, include_word_list)

----------------------------------------------------------------------------
(* The reconstruction pass *)

\* the captured window's position on the screen (ScreenshotCapture.offset_x, offset_y)
Offsets == {<<10, 20>>}

NoCall == [offset_x |-> 0, offset_y |-> 0, include_word_list |-> FALSE]

TextInit ==
    /\ images = <<>>
    /\ ocr_pc = "ocr"
    /\ call = NoCall
    /\ ocr_text = <<>>
    /\ word_list = <<>>

RECURSIVE SumLen(_)
SumLen(ss) == IF ss = <<>> THEN 0 ELSE Len(Head(ss)) + SumLen(Tail(ss))

\* the screenshot holds one more image (ScreenshotCapture.images); the engine
\* has returned at least one box for the image before it
OcrImage ==
    /\ ocr_pc = "ocr"
    /\ Len(images) < MaxImages
    /\ images # <<>> => images[Len(images)] # <<>>
    /\ images' = Append(images, <<>>)
    /\ UNCHANGED <<ocr_pc, call, ocr_text, word_list>>
    /\ UNCHANGED ctrl_vars
    /\ UNCHANGED app_vars
    /\ UNCHANGED color_vars
    /\ UNCHANGED load_vars

\* the engine returns one more box for the last image, in reading order
OcrBox(w) ==
    /\ ocr_pc = "ocr"
    /\ images # <<>>
    /\ SumLen(images) < MaxWords
    /\ LET n == Len(images)
           img == images[n]
       IN /\ img # <<>> => TupleLeq(TupleOf(img[Len(img)]), TupleOf(w))
          /\ images' = [images EXCEPT ![n] = Append(img, w)]
    /\ UNCHANGED <<ocr_pc, call, ocr_text, word_list>>
    /\ UNCHANGED ctrl_vars
    /\ UNCHANGED app_vars
    /\ UNCHANGED color_vars
    /\ UNCHANGED load_vars

\* OCRProcessor.process_images, called by OCRDesktopApp._run_ocr
ProcessImages(offset_x, offset_y, include_word_list) ==
    /\ ocr_pc = "ocr"
    /\ LET r == ImagesLoop(images, 1, <<>>, <<>>, offset_x, offset_y, include_word_list)
       IN /\ ocr_text' = r.ocr_text
          /\ word_list' = r.word_list
    /\ call' = [offset_x |-> offset_x, offset_y |-> offset_y,
                include_word_list |-> include_word_list]
    /\ ocr_pc' = "done"
    /\ UNCHANGED images
    /\ UNCHANGED ctrl_vars
    /\ UNCHANGED app_vars
    /\ UNCHANGED color_vars
    /\ UNCHANGED load_vars

----------------------------------------------------------------------------
(* ColorDetector (color.py).  A pixel value is the tuple of its bands; an
   image is given by the pixels of the box's region, grouped by value in the
   order in which getdata() first yields each value. *)

MaxCalls == 2
MaxRuns == 3

Black == <<0, 0, 0>>
Dark == <<10, 10, 10>>
White == <<255, 255, 255>>
Reddish == <<250, 0, 0>>

\* the value of a pixel of a one-band (grayscale) image
Gray == <<128>>

RgbPixels == {Black, Dark, White, Reddish}

\* webcolors.CSS3_HEX_TO_NAMES with hex_to_rgb applied, in the table's order
\* (three of its entries)
Css3 ==
    <<[rgb |-> <<0, 0, 0>>, name |-> "black"],
      [rgb |-> <<255, 255, 255>>, name |-> "white"],
      [rgb |-> <<255, 0, 0>>, name |-> "red"]>>

Dist2(a, b) ==
    (a[1] - b[1]) * (a[1] - b[1]) + (a[2] - b[2]) * (a[2] - b[2])
        + (a[3] - b[3]) * (a[3] - b[3])

\* KDTree(rgb_values).query(rgb_tuple): the index of the nearest reference colour
Query(rgb_tuple) ==
    CHOOSE i \in 1..Len(Css3) :
        \A j \in 1..Len(Css3) : Dist2(rgb_tuple, Css3[i].rgb) <= Dist2(rgb_tuple, Css3[j].rgb)

\* the uncached search: self._color_names[index]
NearestName(rgb_tuple) == Css3[Query(rgb_tuple)].name

NoCache == [p \in {} |-> ""]

\* a dict that forgets its items when one is put
PutAlone(cache, key, value) == [p \in {key} |-> value]

\* self._color_cache[rgb_tuple] = result
Put(cache, key, value) == [p \in DOMAIN cache \cup {key} |-> IF p = key THEN value ELSE cache[p]]

\* ColorDetector._rgb_to_name: the name, the cache and the tree after the
\* call; query raises on a value that has not three bands
RgbToName(rgb_tuple, cache, kdt) ==
    IF rgb_tuple \in DOMAIN cache
    THEN [raised |-> FALSE, name |-> cache[rgb_tuple], cache |-> cache, kdt |-> kdt]
    ELSE IF Len(rgb_tuple) # 3
    THEN [raised |-> TRUE, name |-> "", cache |-> cache, kdt |-> TRUE]
    ELSE [raised |-> FALSE, name |-> NearestName(rgb_tuple),
          cache |-> Put(cache, rgb_tuple, NearestName(rgb_tuple)), kdt |-> TRUE]

\* by_color_name[name] += count, the dict kept in insertion order
AddCount(by_color_name, name, count) ==
    IF \E j \in 1..Len(by_color_name) : by_color_name[j].name = name
    THEN [j \in 1..Len(by_color_name) |->
            IF by_color_name[j].name = name
            THEN [name |-> name, count |-> by_color_name[j].count + count]
            ELSE by_color_name[j]]
    ELSE Append(by_color_name, [name |-> name, count |-> count])

\* the loop `for color, count in by_color.items()`, from item i on
RECURSIVE NamesLoop(_, _, _, _, _)
NamesLoop(by_color, i, by_color_name, cache, kdt) ==
    IF i > Len(by_color)
    THEN [raised |-> FALSE, by_color_name |-> by_color_name, cache |-> cache, kdt |-> kdt]
    ELSE LET r == RgbToName(by_color[i].color, cache, kdt)
         IN IF r.raised
            THEN [raised |-> TRUE, by_color_name |-> by_color_name,
                  cache |-> r.cache, kdt |-> r.kdt]
            ELSE NamesLoop(by_color, i + 1,
                           AddCount(by_color_name, r.name, by_color[i].count),
                           r.cache, r.kdt)

\* sorted(by_color_name.items(), key=count, reverse=True): the place of item j
\* (the sort is stable)
Place(by_color_name, j) ==
    1 + Cardinality({k \in 1..Len(by_color_name) :
                        \/ by_color_name[k].count > by_color_name[j].count
                        \/ by_color_name[k].count = by_color_name[j].count /\ k < j})

\* color_list with the count of each name
ColorList(by_color_name) ==
    [r \in 1..Len(by_color_name) |->
        by_color_name[CHOOSE j \in 1..Len(by_color_name) : Place(by_color_name, j) = r]]

Min(a, b) == IF a < b THEN a ELSE b

\* int(round(count / (width * height) * 100, 0))
Percent(count, area) == Round(100 * count, area)

\* one part of color_str: '<name>: <n> %, ' or '<name>: <n> pixel, '
Part(name, amount, unit) == [name |-> name, amount |-> amount, unit |-> unit]

\* the loop over the top names that reports also a share that rounds to 0
RECURSIVE PartsLoopAll(_, _, _, _, _)
PartsLoopAll(color_list, i, n, area, parts) ==
    IF i > n THEN parts
    ELSE LET e == color_list[i]
         IN PartsLoopAll(color_list, i + 1, n, area,
                IF area # 0
                THEN Append(parts, Part(e.name, Percent(e.count, area), "%"))
                ELSE Append(parts, Part(e.name, e.count, "pixel")))

\* the loop `for i in range(min(self._max_colors, len(color_list)))`
RECURSIVE PartsLoop(_, _, _, _, _)
PartsLoop(color_list, i, n, area, parts) ==
    IF i > n THEN parts
    ELSE LET e == color_list[i]
         IN PartsLoop(color_list, i + 1, n, area,
                IF area # 0
                THEN (IF Percent(e.count, area) > 0
                      THEN Append(parts, Part(e.name, Percent(e.count, area), "%"))
                      ELSE parts)
                ELSE Append(parts, Part(e.name, e.count, "pixel")))

\* how a call ends: the string returned ('unknown', or the parts joined), or
\* an exception; the pixels read from the image; the cache and the tree after
Ret(raised, parts, sampled, cache, kdt) ==
    [raised |-> raised,
     label |-> IF raised THEN "" ELSE IF parts = <<>> THEN "unknown" ELSE "colors",
     parts |-> parts, sampled |-> sampled, cache |-> cache, kdt |-> kdt]

RECURSIVE SumCounts(_)
SumCounts(by_color) ==
    IF by_color = <<>> THEN 0 ELSE Head(by_color).count + SumCounts(Tail(by_color))

BoxKeys == {"width", "height", "left", "top"}

\* the body of the try block of get_color_string
Body(box, index, img, n_max, cache, kdt) ==
    IF ~(BoxKeys \subseteq box.keys) \/ index > Len(box.width)
    THEN Ret(TRUE, <<>>, 0, cache, kdt)            \* KeyError, IndexError
    ELSE LET width == box.width[index]
             height == box.height[index]
         IN IF width < 0 \/ height < 0
            THEN Ret(TRUE, <<>>, 0, cache, kdt)    \* crop: right is less than left
            ELSE LET by_color == img.pixels
                     r == NamesLoop(by_color, 1, <<>>, cache, kdt)
                     color_list == ColorList(r.by_color_name)
                 IN IF r.raised
                    THEN Ret(TRUE, <<>>, SumCounts(by_color), r.cache, r.kdt)
                    ELSE Ret(FALSE,
                             PartsLoop(color_list, 1, Min(n_max, Len(color_list)),
                                       width * height, <<>>),
                             SumCounts(by_color), r.cache, r.kdt)

\* no except clause: the exception leaves get_color_string
Uncaught(r) == r

\* `except Exception: return 'unknown'`
Caught(r) == IF r.raised THEN Ret(FALSE, <<>>, r.sampled, r.cache, r.kdt) ELSE r

\* the early returns without the test of max_colors
RefusesWhateverMax(box, img) ==
    ~enabled \/ ~scipy_available \/ ~webcolors_available \/ img.none \/ box.keys = {}

\* the early returns of get_color_string, lines 46-63
Refuses(box, img) ==
    \/ ~enabled
    \/ ~scipy_available
    \/ ~webcolors_available
    \/ max_colors < 1
    \/ img.none
    \/ box.keys = {}

\* ColorDetector.get_color_string
GetColorString(box, index, img) ==
    IF Refuses(box, img)
    THEN Ret(FALSE, <<>>, 0, color_cache, kdt_db)
    ELSE Caught(Body(box, index, img, max_colors, color_cache, kdt_db))

\* the OCR dict with one box of the given size at the image's origin
Box(width, height) ==
    [keys |-> BoxKeys, width |-> <<width>>, height |-> <<height>>,
     left |-> <<0>>, top |-> <<0>>]

\* an empty dict
EmptyBox == [Box(3, 2) EXCEPT !.keys = {}]

\* a dict with no 'height'
NoHeightBox == [Box(3, 2) EXCEPT !.keys = {"width", "left", "top"}]

\* width and height of the boxes: six pixels, none, many
Sizes == {<<3, 2>>, <<0, 5>>, <<25, 10>>}

\* the numbers of pixels of one value that occur in a box of the area
CountsFor(area) ==
    IF area <= 6 THEN {1, 2, 4, area} ELSE {1, area - 2, area - 1}

\* the pixels of a box of the area: up to MaxRuns values, each with its
\* count, in the order of their first occurrence
Contents(area) ==
    IF area = 0 THEN {<<>>}
    ELSE UNION {
           {[i \in 1..k |-> [color |-> cols[i], count |-> cnts[i]]] :
                cols \in {f \in [1..k -> RgbPixels] :
                             \A i, j \in 1..k : f[i] = f[j] => i = j},
                cnts \in {g \in [1..k -> CountsFor(area)] :
                             SumCounts([i \in 1..k |-> [count |-> g[i]]]) = area}}
           : k \in 1..MaxRuns}

Image(pixels) == [none |-> FALSE, pixels |-> pixels]

\* img is None
NoImage == [none |-> TRUE, pixels |-> <<>>]

\* a grayscale image under a box of six pixels
GrayImage == Image(<<[color |-> Gray, count |-> 6]>>)

\* an image whose box holds a value of three bands, then one of one band
MixedImage == Image(<<[color |-> Dark, count |-> 2], [color |-> Gray, count |-> 4]>>)

ColorCall(box, index, img) == [box |-> box, index |-> index, img |-> img]

\* the calls of the reconstruction pass: a box of the OCR dict and the image
\* it was found in
GoodCalls ==
    UNION {{ColorCall(Box(s[1], s[2]), 1, Image(c)) : c \in Contents(s[1] * s[2])}
           : s \in Sizes}

\* the calls that fail: no image, an empty dict, a missing key, an index past
\* the lists, a negative width, pixels that are no RGB triples
BadCalls ==
    {ColorCall(Box(3, 2), 1, NoImage),
     ColorCall(EmptyBox, 1, Image(<<[color |-> White, count |-> 6]>>)),
     ColorCall(NoHeightBox, 1, Image(<<[color |-> White, count |-> 6]>>)),
     ColorCall(Box(3, 2), 2, Image(<<[color |-> White, count |-> 6]>>)),
     ColorCall(Box(-3, 2), 1, Image(<<>>)),
     ColorCall(Box(3, 2), 1, GrayImage),
     ColorCall(Box(3, 2), 1, MixedImage)}

Calls == GoodCalls \cup BadCalls

NoColorCall == ColorCall(EmptyBox, 0, NoImage)

NoColorRet == [raised |-> FALSE, label |-> "", parts |-> <<>>, sampled |-> 0]

\* the detector as constructed and as _run_ocr leaves it without -O
ColorOff ==
    /\ enabled = FALSE
    /\ max_colors = 3
    /\ scipy_available = TRUE
    /\ webcolors_available = TRUE
    /\ kdt_db = FALSE
    /\ color_cache = NoCache
    /\ color_call = NoColorCall
    /\ color_ret = NoColorRet
    /\ ncalls = 0

\* the settings a run can have: -O with -x 0, 2 or 3 (the default), one of the
\* two libraries missing, detection off
Settings ==
    {[enabled |-> TRUE, max_colors |-> n, scipy |-> TRUE, webcolors |-> TRUE] : n \in {0, 2, 3}}
    \cup {[enabled |-> FALSE, max_colors |-> 3, scipy |-> TRUE, webcolors |-> TRUE],
          [enabled |-> TRUE, max_colors |-> 3, scipy |-> FALSE, webcolors |-> TRUE],
          [enabled |-> TRUE, max_colors |-> 3, scipy |-> TRUE, webcolors |-> FALSE]}

\* the detector after _run_ocr has set it, before the first call
ColorInit ==
    /\ \E s \in Settings :
          /\ enabled = s.enabled
          /\ max_colors = s.max_colors
          /\ scipy_available = s.scipy
          /\ webcolors_available = s.webcolors
    /\ kdt_db = FALSE
    /\ color_cache = NoCache
    /\ color_call = NoColorCall
    /\ color_ret = NoColorRet
    /\ ncalls = 0

\* one call of get_color_string by _process_ocr_words (ocr.py 197-198)
CallGetColorString(c) ==
    /\ ncalls < MaxCalls
    /\ ncalls' = ncalls + 1
    /\ color_call' = c
    /\ \E r \in {GetColorString(c.box, c.index, c.img)} :
          /\ color_ret' = [raised |-> r.raised, label |-> r.label, parts |-> r.parts,
                           sampled |-> r.sampled]
          /\ color_cache' = r.cache
          /\ kdt_db' = r.kdt
    /\ UNCHANGED <<enabled, max_colors, scipy_available, webcolors_available>>
    /\ UNCHANGED text_vars
    /\ UNCHANGED ctrl_vars
    /\ UNCHANGED app_vars
    /\ UNCHANGED load_vars

----------------------------------------------------------------------------
(* The log's lines.  A line is the sequence of its tokens: the separator ","
   and the fields between separators; the line's final newline is left out. *)

COMMA == ","

\* the text of one formatted field: nothing for the empty string
Field(str) == IF str = "" THEN <<>> ELSE <<str>>

\* the f-strings f'k,{..},{..},{..}\n' and f'm,{x},{y},{mouse_event}\n'
RECURSIVE JoinComma(_)
JoinComma(fields) ==
    IF fields = <<>> THEN <<>>
    ELSE IF Len(fields) = 1 THEN Field(fields[1])
    ELSE Field(fields[1]) \o <<COMMA>> \o JoinComma(Tail(fields))

\* the string of the tokens between two separators
StrOf(piece) == IF piece = <<>> THEN "" ELSE piece[1]

\* the positions of the separators of a line
CommasOf(line) == {i \in 1..Len(line) : line[i] = COMMA}

\* the position of the j-th separator; 0 before the first field, one past the
\* end after the last
NthComma(line, j) ==
    IF j = 0 THEN 0
    ELSE IF j > Cardinality(CommasOf(line)) THEN Len(line) + 1
    ELSE CHOOSE i \in CommasOf(line) : Cardinality({c \in CommasOf(line) : c <= i}) = j

\* line.strip().split(','): the fields between the separators, one more than
\* there are separators
SplitComma(line) ==
    [j \in 1..(Cardinality(CommasOf(line)) + 1) |->
        StrOf(SubSeq(line, NthComma(line, j - 1) + 1, NthComma(line, j) - 1))]

\* the integers whose decimal numerals occur in the model
Numerals == (0..2) \cup {50, 60, 100, 200, 97}

\* int(s) succeeds
IsInt(str) == \E n \in Numerals : ToString(n) = str

\* int(s)
IntOf(str) == CHOOSE n \in Numerals : ToString(n) = str

\* float(s) succeeds
IsFloat(str) == str \in {"0.9", "0.1"} \/ IsInt(str)

\* float(s), in tenths
TenthsOf(str) ==
    CASE str = "0.9" -> 9
      [] str = "0.1" -> 1
      [] OTHER -> 10 * IntOf(str)

----------------------------------------------------------------------------
(* The input interface (pyatspi.Registry) and what is done to it *)

Effect(op, n1, n2, str) == [op |-> op, n1 |-> n1, n2 |-> n2, str |-> str]

\* time.sleep(seconds) of the executing task, in tenths
Sleep(tenths) == Effect("sleep", tenths, 0, "")

\* pyatspi.Registry.generateMouseEvent(x, y, name)
MouseEvent(x, y, name) == Effect("mouse", x, y, name)

\* pyatspi.Registry.generateKeyboardEvent(keyval, keystring, KEY_PRESS | KEY_RELEASE | KEY_PRESSRELEASE)
KeyboardEvent(key_value, key_string, phase) == Effect("key", key_value, phase, key_string)

\* constants.KEY_CODE.get(key_string, 0): the keysym table
KEY_CODE(key_string) ==
    CASE key_string = "a" -> 97
      [] OTHER -> 0

----------------------------------------------------------------------------
(* MacroManager: the active log *)

NoFile == [exists |-> FALSE, lines |-> <<>>]

File(lines) == [exists |-> TRUE, lines |-> lines]

\* MacroManager.macro_exists
MacroExists == macro_file.exists

\* the fixed delay written before a recorded pointer event
DelayLine == <<"c", COMMA, "delay", COMMA, "0.9">>

\* a write that opens the log with "w"
WriteMouseToMacroTruncate(x, y, mouse_event) ==
    File(<<DelayLine, JoinComma(<<"m", ToString(x), ToString(y), mouse_event>>)>>)

\* MacroManager.write_mouse_to_macro: open(.., "a") and two writes
WriteMouseToMacro(x, y, mouse_event) ==
    File(macro_file.lines \o
         <<DelayLine, JoinComma(<<"m", ToString(x), ToString(y), mouse_event>>)>>)

\* MacroManager.write_keyboard_to_macro: open(.., "a") and one write
WriteKeyboardToMacro(key_value, key_string, event_type) ==
    IF ~pyatspi THEN macro_file
    ELSE File(Append(macro_file.lines,
                     JoinComma(<<"k", ToString(key_value), key_string,
                                 ToString(event_type)>>)))

\* the step without the lookup of the symbol
DoKeyboardStepNoLookup(key_value, key_string, event_type) ==
    IF ~pyatspi THEN <<>>
    ELSE IF key_value = 0 /\ key_string = "" THEN <<>>
    ELSE IF event_type \in 0..2
         THEN <<KeyboardEvent(key_value, key_string, event_type)>>
         ELSE <<>>

\* MacroManager._do_keyboard_step: the events it generates
DoKeyboardStep(key_value, key_string, event_type) ==
    IF ~pyatspi THEN <<>>
    ELSE IF key_value = 0 /\ key_string = "" THEN <<>>
    ELSE LET kv == IF key_value = 0 THEN KEY_CODE(key_string) ELSE key_value
         IN IF event_type \in 0..2
            THEN <<KeyboardEvent(kv, key_string, event_type)>>
            ELSE <<>>

\* the step without the absolute move
DoMouseStepNoMove(x, y, mouse_event) ==
    IF ~pyatspi THEN <<>>
    ELSE IF mouse_event # "None" THEN <<MouseEvent(x, y, mouse_event)>> ELSE <<>>

\* MacroManager._do_mouse_step: the events it generates
DoMouseStep(x, y, mouse_event) ==
    IF ~pyatspi THEN <<>>
    ELSE <<MouseEvent(x, y, "abs")>>
         \o (IF mouse_event # "None" THEN <<MouseEvent(x, y, mouse_event)>> ELSE <<>>)

Outcome(raised, sleep, events) == [raised |-> raised, sleep |-> sleep, events |-> events]

Raised == Outcome(TRUE, -1, <<>>)

\* the body of run_macro's loop for one line: an exception raised by the
\* conversions or the indexing, a sleep, or the events generated
ExecLine(line) ==
    LET parts == SplitComma(line)
        n == Len(parts)
    IN CASE parts[1] = "c" ->
              IF n < 2 THEN Raised
              ELSE IF parts[2] # "delay" THEN Outcome(FALSE, -1, <<>>)
              ELSE IF n < 3 \/ ~IsFloat(parts[3]) THEN Raised
              ELSE Outcome(FALSE, TenthsOf(parts[3]), <<>>)
         [] parts[1] = "k" ->
              IF n < 4 \/ ~IsInt(parts[2]) \/ ~IsInt(parts[4]) THEN Raised
              ELSE Outcome(FALSE, -1,
                           DoKeyboardStep(IntOf(parts[2]), parts[3], IntOf(parts[4])))
         [] parts[1] = "m" ->
              IF n < 4 \/ ~IsInt(parts[2]) \/ ~IsInt(parts[3]) THEN Raised
              ELSE Outcome(FALSE, -1,
                           DoMouseStep(IntOf(parts[2]), IntOf(parts[3]), parts[4]))
         [] OTHER -> Outcome(FALSE, -1, <<>>)

----------------------------------------------------------------------------
(* MainWindow: the controller *)

\* the pause of a pointer action that is not recorded, in tenths (delay=0.8)
ClickDelay == 8

\* the coordinates of the selected row of the tree view, if a row is selected
Selections == {[has |-> FALSE, x |-> 0, y |-> 0], [has |-> TRUE, x |-> 100, y |-> 200]}

MouseEvents == {"b1c", "b1d", "b3c", "b2c"}

\* the key events the listener is called with
EventTypes == {"pressed", "released", "other"}
EventStrings == {"a", "F4", ","}

NoEvent == [type |-> "none", event_string |-> ""]

\* the files a log can be loaded from, and the log a session can start with
LoadableLogs ==
    {File(<<>>),
     File(<<<<"c", COMMA, "delay", COMMA, "0.1">>,
            <<"m", COMMA, "50", COMMA, "60", COMMA, "b1c">>>>),
     File(<<<<"m", COMMA, "50", COMMA, "60", COMMA, "None">>,
            <<"k", COMMA, "0", COMMA, COMMA, "1">>,
            <<"k", COMMA, "0", COMMA, "a", COMMA, "2">>>>),
     File(<<<<>>, <<"x", COMMA, "1">>, <<"m", COMMA, "50">>>>)}

InitialLogs == {NoFile} \cup LoadableLogs

Thread(kind, x, y, mouse_event) ==
    [kind |-> kind, pc |-> "start", x |-> x, y |-> y, mouse_event |-> mouse_event,
     lines |-> <<>>, i |-> 0, base |-> 0]

\* the controller after show_window, the log as earlier sessions left it
CtrlInit ==
    /\ pyatspi \in BOOLEAN
    /\ preclick_active = FALSE
    /\ save_to_macro = FALSE
    /\ keyboard_overlay_active = FALSE
    /\ listener = FALSE
    /\ last_event = NoEvent
    /\ nkeys = 0
    /\ session_armed = FALSE
    /\ visible = TRUE
    /\ gtk_main_running = TRUE
    /\ main_loop = TRUE
    /\ dialog = "none"
    /\ macro_file \in InitialLogs
    /\ macro_finished = FALSE
    /\ threads = <<>>
    /\ injected = <<>>

\* no window: the controller's variables while the reconstruction pass runs
CtrlNone ==
    /\ pyatspi = TRUE
    /\ preclick_active = FALSE
    /\ save_to_macro = FALSE
    /\ keyboard_overlay_active = FALSE
    /\ listener = FALSE
    /\ last_event = NoEvent
    /\ nkeys = 0
    /\ session_armed = FALSE
    /\ visible = FALSE
    /\ gtk_main_running = FALSE
    /\ main_loop = FALSE
    /\ dialog = "none"
    /\ macro_file = NoFile
    /\ macro_finished = FALSE
    /\ threads = <<>>
    /\ injected = <<>>

\* the main loop dispatches a menu item's handler of the shown window
UiReady == main_loop /\ visible /\ dialog = "none"

\* MainWindow._cancel
Cancel ==
    IF gtk_main_running
    THEN main_loop' = FALSE /\ gtk_main_running' = FALSE
    ELSE UNCHANGED <<main_loop, gtk_main_running>>

\* MainWindow._set_save_to_macro: the Preclick item was toggled
SetSaveToMacro ==
    /\ UiReady
    /\ preclick_active' = ~preclick_active
    /\ save_to_macro' = preclick_active'
    /\ UNCHANGED text_vars
    /\ UNCHANGED color_vars
    /\ UNCHANGED load_vars
    /\ UNCHANGED app_vars
    /\ UNCHANGED <<session_armed, pyatspi, keyboard_overlay_active, listener, last_event, nkeys,
                   visible, gtk_main_running, main_loop, dialog, macro_file,
                   macro_finished, threads, injected>>

\* a click handler that leaves the window shown
OnClickShown(sel, mouse_event) ==
    /\ UiReady
    /\ IF sel.has
       THEN threads' = Append(threads, Thread("click", sel.x, sel.y, mouse_event))
       ELSE UNCHANGED threads
    /\ UNCHANGED text_vars
    /\ UNCHANGED color_vars
    /\ UNCHANGED load_vars
    /\ UNCHANGED app_vars
    /\ UNCHANGED <<session_armed, pyatspi, preclick_active, save_to_macro, keyboard_overlay_active,
                   listener, last_event, nkeys, gtk_main_running, main_loop, dialog,
                   macro_file, macro_finished, injected, visible>>

\* MainWindow._on_left_click, _on_double_click, _on_right_click, _on_middle_click
OnClick(sel, mouse_event) ==
    /\ UiReady
    /\ IF sel.has
       THEN /\ visible' = FALSE
            /\ threads' = Append(threads, Thread("click", sel.x, sel.y, mouse_event))
       ELSE UNCHANGED <<visible, threads>>
    /\ UNCHANGED text_vars
    /\ UNCHANGED color_vars
    /\ UNCHANGED load_vars
    /\ UNCHANGED app_vars
    /\ UNCHANGED <<session_armed, pyatspi, preclick_active, save_to_macro, keyboard_overlay_active,
                   listener, last_event, nkeys, gtk_main_running, main_loop, dialog,
                   macro_file, macro_finished, injected>>

\* MainWindow._route_to_point
RouteToPoint(sel) ==
    /\ UiReady
    /\ visible' = FALSE
    /\ threads' = IF sel.has
                  THEN Append(threads, Thread("route", sel.x, sel.y, "None"))
                  ELSE threads
    /\ UNCHANGED text_vars
    /\ UNCHANGED color_vars
    /\ UNCHANGED load_vars
    /\ UNCHANGED app_vars
    /\ UNCHANGED <<session_armed, pyatspi, preclick_active, save_to_macro, keyboard_overlay_active,
                   listener, last_event, nkeys, gtk_main_running, main_loop, dialog,
                   macro_file, macro_finished, injected>>

\* every pointer action is recorded
RecordPointerAlways == TRUE

\* `self._save_to_macro and self._macro`: the pointer action is recorded
RecordPointer == save_to_macro

\* the event of a pointer action that is not recorded
PointerEvent(th) ==
    IF th.kind = "click" THEN MouseEvent(th.x, th.y, th.mouse_event)
    ELSE MouseEvent(th.x, th.y, "abs")

\* a pointer thread whose capture disarms the controller
ThreadPointerStartDisarm(t) ==
    /\ t \in DOMAIN threads
    /\ threads[t].kind \in {"click", "route"}
    /\ threads[t].pc = "start"
    /\ IF ~pyatspi
       THEN /\ Cancel
            /\ threads' = [threads EXCEPT ![t].pc = "done"]
            /\ UNCHANGED <<macro_file, injected, save_to_macro>>
       ELSE IF RecordPointer
       THEN /\ macro_file' = WriteMouseToMacro(threads[t].x, threads[t].y,
                                               threads[t].mouse_event)
            /\ save_to_macro' = FALSE
            /\ Cancel
            /\ threads' = [threads EXCEPT ![t].pc = "done"]
            /\ UNCHANGED injected
       ELSE /\ injected' = Append(injected, Sleep(ClickDelay))
            /\ threads' = [threads EXCEPT ![t].pc = "sleep"]
            /\ UNCHANGED <<macro_file, main_loop, gtk_main_running, save_to_macro>>
    /\ UNCHANGED text_vars
    /\ UNCHANGED color_vars
    /\ UNCHANGED load_vars
    /\ UNCHANGED app_vars
    /\ UNCHANGED <<session_armed, pyatspi, preclick_active, keyboard_overlay_active,
                   listener, last_event, nkeys, visible, dialog, macro_finished>>

\* MainWindow._thread_do_click and _thread_route_to, up to the sleep
ThreadPointerStart(t) ==
    /\ t \in DOMAIN threads
    /\ threads[t].kind \in {"click", "route"}
    /\ threads[t].pc = "start"
    /\ IF ~pyatspi
       THEN /\ Cancel
            /\ threads' = [threads EXCEPT ![t].pc = "done"]
            /\ UNCHANGED <<macro_file, injected>>
       ELSE IF RecordPointer
       THEN /\ macro_file' = WriteMouseToMacro(threads[t].x, threads[t].y,
                                               threads[t].mouse_event)
            /\ Cancel
            /\ threads' = [threads EXCEPT ![t].pc = "done"]
            /\ UNCHANGED injected
       ELSE /\ injected' = Append(injected, Sleep(ClickDelay))
            /\ threads' = [threads EXCEPT ![t].pc = "sleep"]
            /\ UNCHANGED <<macro_file, main_loop, gtk_main_running>>
    /\ UNCHANGED text_vars
    /\ UNCHANGED color_vars
    /\ UNCHANGED load_vars
    /\ UNCHANGED app_vars
    /\ UNCHANGED <<session_armed, pyatspi, preclick_active, save_to_macro, keyboard_overlay_active,
                   listener, last_event, nkeys, visible, dialog, macro_finished>>

\* MainWindow._thread_do_click and _thread_route_to, after the sleep
ThreadPointerInject(t) ==
    /\ t \in DOMAIN threads
    /\ threads[t].kind \in {"click", "route"}
    /\ threads[t].pc = "sleep"
    /\ injected' = Append(injected, PointerEvent(threads[t]))
    /\ Cancel
    /\ threads' = [threads EXCEPT ![t].pc = "done"]
    /\ UNCHANGED text_vars
    /\ UNCHANGED color_vars
    /\ UNCHANGED load_vars
    /\ UNCHANGED app_vars
    /\ UNCHANGED <<session_armed, pyatspi, preclick_active, save_to_macro, keyboard_overlay_active,
                   listener, last_event, nkeys, visible, dialog, macro_file,
                   macro_finished>>

\* MainWindow._send_key_mode
SendKeyMode ==
    /\ UiReady
    /\ IF pyatspi
       THEN keyboard_overlay_active' = TRUE /\ listener' = TRUE
       ELSE UNCHANGED <<keyboard_overlay_active, listener>>
    /\ session_armed' = save_to_macro
    /\ UNCHANGED text_vars
    /\ UNCHANGED color_vars
    /\ UNCHANGED load_vars
    /\ UNCHANGED app_vars
    /\ UNCHANGED <<pyatspi, preclick_active, save_to_macro, last_event, nkeys, visible,
                   gtk_main_running, main_loop, dialog, macro_file, macro_finished,
                   threads, injected>>

\* the sentinel taken on the release of F4
IsSentinelOnRelease(type, event_string) == type = "released" /\ event_string = "F4"

\* the sentinel of send-key mode
IsSentinel(type, event_string) == type = "pressed" /\ event_string = "F4"

\* the sentinel's branch, disarming the controller
SendKeySentinelDisarm ==
    /\ keyboard_overlay_active' = FALSE
    /\ listener' = FALSE
    /\ save_to_macro' = FALSE
    /\ UNCHANGED <<macro_file, injected>>

\* MainWindow._on_send_key, the sentinel's branch
SendKeySentinel ==
    /\ keyboard_overlay_active' = FALSE
    /\ listener' = FALSE
    /\ UNCHANGED <<save_to_macro, macro_file, injected>>

\* event_type_id of _on_send_key
EventTypeId(type) ==
    CASE type = "pressed" -> 0
      [] type = "released" -> 1
      [] OTHER -> 2

\* MainWindow._on_send_key, every other key event
SendKeyOther(type, event_string) ==
    /\ macro_file' = WriteKeyboardToMacro(0, event_string, EventTypeId(type))
    /\ UNCHANGED <<keyboard_overlay_active, listener, save_to_macro, injected>>

\* MainWindow._on_send_key: the registry calls the listener with a key event
OnSendKey(type, event_string) ==
    /\ main_loop
    /\ listener
    /\ nkeys < MaxKeys
    /\ nkeys' = nkeys + 1
    /\ last_event' = [type |-> type, event_string |-> event_string]
    /\ IF ~pyatspi
       THEN UNCHANGED <<keyboard_overlay_active, listener, save_to_macro, macro_file,
                        injected>>
       ELSE IF IsSentinel(type, event_string)
       THEN SendKeySentinel
       ELSE SendKeyOther(type, event_string)
    /\ UNCHANGED text_vars
    /\ UNCHANGED color_vars
    /\ UNCHANGED load_vars
    /\ UNCHANGED app_vars
    /\ UNCHANGED <<session_armed, pyatspi, preclick_active, visible, gtk_main_running, main_loop,
                   dialog, macro_finished, threads>>

\* run without the check that a log exists
OnRunMacroUnchecked ==
    /\ UiReady
    /\ visible' = FALSE
    /\ threads' = Append(threads, Thread("run", 0, 0, ""))
    /\ UNCHANGED text_vars
    /\ UNCHANGED color_vars
    /\ UNCHANGED load_vars
    /\ UNCHANGED app_vars
    /\ UNCHANGED <<session_armed, pyatspi, preclick_active, save_to_macro,
                   keyboard_overlay_active, listener, last_event, nkeys,
                   gtk_main_running, main_loop, dialog, macro_file, macro_finished,
                   injected>>

\* MainWindow._on_run_macro
OnRunMacro ==
    /\ UiReady
    /\ IF MacroExists
       THEN /\ visible' = FALSE
            /\ threads' = Append(threads, Thread("run", 0, 0, ""))
            /\ UNCHANGED dialog
       ELSE /\ dialog' = "No Macro loaded"
            /\ UNCHANGED <<visible, threads>>
    /\ UNCHANGED text_vars
    /\ UNCHANGED color_vars
    /\ UNCHANGED load_vars
    /\ UNCHANGED app_vars
    /\ UNCHANGED <<session_armed, pyatspi, preclick_active, save_to_macro, keyboard_overlay_active,
                   listener, last_event, nkeys, gtk_main_running, main_loop,
                   macro_file, macro_finished, injected>>

\* the user closes the notice: dialog.run() returns
DismissDialog ==
    /\ main_loop
    /\ dialog # "none"
    /\ dialog' = "none"
    /\ UNCHANGED text_vars
    /\ UNCHANGED color_vars
    /\ UNCHANGED load_vars
    /\ UNCHANGED app_vars
    /\ UNCHANGED <<session_armed, pyatspi, preclick_active, save_to_macro, keyboard_overlay_active,
                   listener, last_event, nkeys, visible, gtk_main_running, main_loop,
                   macro_file, macro_finished, threads, injected>>

\* the callers of run_macro: MainWindow._thread_run_macro ("run"), the startup
\* manager's thread_run_macro ("prerun"), OCRDesktopApp.run itself ("inline")
RunKinds == {"run", "prerun", "inline"}

\* what follows run_macro in its caller: _cancel() in _thread_run_macro only
AfterRun(kind) ==
    IF kind = "run" THEN Cancel ELSE UNCHANGED <<main_loop, gtk_main_running>>

\* run_macro up to the open of the log
ThreadRunStart(t) ==
    /\ t \in DOMAIN threads
    /\ threads[t].kind \in RunKinds
    /\ app_pc \notin {"exit", "crashed"}
    /\ threads[t].pc = "start"
    /\ IF ~MacroExists
       THEN /\ AfterRun(threads[t].kind)
            /\ threads' = [threads EXCEPT ![t].pc = "done"]
            /\ UNCHANGED macro_finished
       ELSE /\ macro_finished' = FALSE
            /\ threads' = [threads EXCEPT ![t].pc = "read", ![t].lines = macro_file.lines,
                                          ![t].i = 1, ![t].base = Len(injected)]
            /\ UNCHANGED <<main_loop, gtk_main_running>>
    /\ UNCHANGED text_vars
    /\ UNCHANGED color_vars
    /\ UNCHANGED load_vars
    /\ UNCHANGED app_vars
    /\ UNCHANGED <<session_armed, pyatspi, preclick_active, save_to_macro, keyboard_overlay_active,
                   listener, last_event, nkeys, visible, dialog, macro_file, injected>>

\* a playback that ends without the completion signal
RunEndsSilently(kind) == UNCHANGED macro_finished /\ AfterRun(kind)

\* run_macro after its loop: finished is set; then what follows its return
RunEnds(kind) == macro_finished' = TRUE /\ AfterRun(kind)

\* the lines of the open file as the next read finds them: a line appended to
\* the log since the open is read too (the file object does not latch its end)
Seen(th) ==
    IF /\ macro_file.exists
       /\ Len(macro_file.lines) >= Len(th.lines)
       /\ SubSeq(macro_file.lines, 1, Len(th.lines)) = th.lines
    THEN macro_file.lines
    ELSE th.lines

\* run_macro: one pass of `for line in f`, or the end of the file
ThreadRunLine(t) ==
    /\ t \in DOMAIN threads
    /\ threads[t].kind \in RunKinds
    /\ app_pc \notin {"exit", "crashed"}
    /\ threads[t].pc = "read"
    /\ LET th == threads[t]
           lines == Seen(th)
       IN IF th.i > Len(lines)
          THEN /\ RunEnds(th.kind)
               /\ threads' = [threads EXCEPT ![t].pc = "done"]
               /\ UNCHANGED injected
          ELSE LET o == ExecLine(lines[th.i])
               IN /\ IF o.raised
                     THEN /\ threads' = [threads EXCEPT ![t].pc = "raised",
                                                        ![t].lines = lines]
                          /\ UNCHANGED injected
                     ELSE IF o.sleep >= 0
                     THEN /\ threads' = [threads EXCEPT ![t].pc = "delay",
                                                        ![t].lines = lines]
                          /\ injected' = Append(injected, Sleep(o.sleep))
                     ELSE /\ threads' = [threads EXCEPT ![t].i = th.i + 1,
                                                        ![t].lines = lines]
                          /\ injected' = injected \o o.events
                  /\ UNCHANGED <<macro_finished, main_loop, gtk_main_running>>
    /\ UNCHANGED text_vars
    /\ UNCHANGED color_vars
    /\ UNCHANGED load_vars
    /\ UNCHANGED app_vars
    /\ UNCHANGED <<session_armed, pyatspi, preclick_active, save_to_macro, keyboard_overlay_active,
                   listener, last_event, nkeys, visible, dialog, macro_file>>

\* run_macro: time.sleep of a delay line returns
ThreadRunWake(t) ==
    /\ t \in DOMAIN threads
    /\ threads[t].kind \in RunKinds
    /\ app_pc \notin {"exit", "crashed"}
    /\ threads[t].pc = "delay"
    /\ threads' = [threads EXCEPT ![t].pc = "read", ![t].i = threads[t].i + 1]
    /\ UNCHANGED text_vars
    /\ UNCHANGED color_vars
    /\ UNCHANGED load_vars
    /\ UNCHANGED app_vars
    /\ UNCHANGED <<session_armed, pyatspi, preclick_active, save_to_macro, keyboard_overlay_active,
                   listener, last_event, nkeys, visible, gtk_main_running, main_loop,
                   dialog, macro_file, macro_finished, injected>>

\* MacroManager._on_delete_macro(close=False), the Unload item: delete_macro
OnDeleteMacro ==
    /\ UiReady
    /\ macro_file' = NoFile
    /\ UNCHANGED text_vars
    /\ UNCHANGED color_vars
    /\ UNCHANGED load_vars
    /\ UNCHANGED app_vars
    /\ UNCHANGED <<session_armed, pyatspi, preclick_active, save_to_macro, keyboard_overlay_active,
                   listener, last_event, nkeys, visible, gtk_main_running, main_loop,
                   dialog, macro_finished, threads, injected>>

\* a load that adds the chosen file's lines to the active log
OnLoadMacroAppend(chosen) ==
    /\ UiReady
    /\ macro_file' = File(macro_file.lines \o chosen.lines)
    /\ UNCHANGED text_vars
    /\ UNCHANGED color_vars
    /\ UNCHANGED load_vars
    /\ UNCHANGED app_vars
    /\ UNCHANGED <<session_armed, pyatspi, preclick_active, save_to_macro, keyboard_overlay_active,
                   listener, last_event, nkeys, visible, gtk_main_running, main_loop,
                   dialog, macro_finished, threads, injected>>

\* MacroManager._on_load_macro, the Load item: the chosen file is copied over the log
OnLoadMacro(chosen) ==
    /\ UiReady
    /\ macro_file' = chosen
    /\ UNCHANGED text_vars
    /\ UNCHANGED color_vars
    /\ UNCHANGED load_vars
    /\ UNCHANGED app_vars
    /\ UNCHANGED <<session_armed, pyatspi, preclick_active, save_to_macro, keyboard_overlay_active,
                   listener, last_event, nkeys, visible, gtk_main_running, main_loop,
                   dialog, macro_finished, threads, injected>>

\* the window's delete-event and the Close item: Gtk.main_quit
CloseWindow ==
    /\ UiReady
    /\ main_loop' = FALSE
    /\ UNCHANGED text_vars
    /\ UNCHANGED color_vars
    /\ UNCHANGED load_vars
    /\ UNCHANGED app_vars
    /\ UNCHANGED <<session_armed, pyatspi, preclick_active, save_to_macro, keyboard_overlay_active,
                   listener, last_event, nkeys, visible, gtk_main_running, dialog,
                   macro_file, macro_finished, threads, injected>>

----------------------------------------------------------------------------
(* MacroManager.load_macro_file and the -m option *)

MaxLoads == 2

\* MacroManager._macro_file: os.path.expanduser('~') + '/.activeOCRMacro.ocrm'
MacroFilePath == "/home/u/.activeOCRMacro.ocrm"

\* the same file named from the home directory: another string
RelativePath == ".activeOCRMacro.ocrm"

MissingPath == "/tmp/none.ocrm"
DirPath == "/tmp"
EmptyLogPath == "/tmp/empty.ocrm"
ClickLogPath == "/tmp/click.ocrm"

\* the arguments of -m
Paths == {MacroFilePath, RelativePath, MissingPath, DirPath, EmptyLogPath, ClickLogPath}

\* the regular file a path other than the log's names
ContentAt(path) ==
    IF path = EmptyLogPath THEN File(<<>>)
    ELSE File(<<<<"c", COMMA, "delay", COMMA, "0.1">>,
                <<"m", COMMA, "50", COMMA, "60", COMMA, "b1c">>>>)

\* os.path.exists(path)
PathExists(path) ==
    CASE path \in {MacroFilePath, RelativePath} -> macro_file.exists
      [] path = MissingPath -> FALSE
      [] OTHER -> TRUE

\* os.path.isfile(path)
PathIsFile(path) == PathExists(path) /\ path # DirPath

\* MacroManager._load_macro_exists
LoadMacroExists(path) == PathExists(path) /\ PathIsFile(path)

\* shutil._samefile(src, self._macro_file): the two paths name one file
SameFile(src) == src \in {MacroFilePath, RelativePath}

LoadOutcome(raised, file) == [raised |-> raised, file |-> file]

\* shutil.copy(src, self._macro_file): SameFileError, or the log is src's copy
Copy(src) ==
    IF SameFile(src) THEN LoadOutcome(TRUE, macro_file)
    ELSE LoadOutcome(FALSE, ContentAt(src))

\* MacroManager.load_macro_file
LoadMacroFile(macro_path) ==
    IF LoadMacroExists(macro_path) /\ macro_path # MacroFilePath
    THEN Copy(macro_path)
    ELSE LoadOutcome(FALSE, macro_file)

\* no -m option has been parsed
LoadOff ==
    /\ load_args = <<>>
    /\ load_before = NoFile
    /\ load_raised = FALSE
    /\ ui_available = TRUE

\* the state before the options are parsed: without GTK the GUI is hidden
LoadInit ==
    /\ load_args = <<>>
    /\ load_before = NoFile
    /\ load_raised = FALSE
    /\ ui_available \in BOOLEAN
    /\ ~ui_available => hide_gui

\* OCRDesktopApp._parse_command_line: one -m option.  An exception ends the
\* loop over the options.
ParseMacroOption(arg) ==
    /\ app_pc = "start"
    /\ ~load_raised
    /\ Len(load_args) < MaxLoads
    /\ load_args' = Append(load_args, arg)
    /\ load_before' = macro_file
    /\ IF ui_available
       THEN \E r \in {LoadMacroFile(arg)} :
               /\ macro_file' = r.file
               /\ load_raised' = r.raised
       ELSE UNCHANGED <<macro_file, load_raised>>
    /\ UNCHANGED ui_available
    /\ UNCHANGED text_vars
    /\ UNCHANGED color_vars
    /\ UNCHANGED app_vars
    /\ UNCHANGED <<pyatspi, preclick_active, save_to_macro, keyboard_overlay_active,
                   listener, last_event, nkeys, session_armed, visible,
                   gtk_main_running, main_loop, dialog, macro_finished, threads,
                   injected>>

----------------------------------------------------------------------------
(* OCRDesktopApp.run and the startup manager ("Preclicks Manager") *)

\* the main window is up: OCRDesktopApp._show_gui has been reached
AppShown == app_pc = "window" /\ hide_gui = FALSE /\ mgr_shown = FALSE

\* OCRDesktopApp._run_ocr is reached: the capture is done, no window yet
AppOcr == app_pc = "ocr" /\ hide_gui = FALSE /\ mgr_shown = FALSE

\* the process starts: no window, the log as earlier runs (or -m) left it
AppInit ==
    /\ app_pc = "start"
    /\ hide_gui \in BOOLEAN
    /\ mgr_shown = FALSE
    /\ pyatspi \in BOOLEAN
    /\ preclick_active = FALSE
    /\ save_to_macro = FALSE
    /\ keyboard_overlay_active = FALSE
    /\ listener = FALSE
    /\ last_event = NoEvent
    /\ nkeys = 0
    /\ session_armed = FALSE
    /\ visible = FALSE
    /\ gtk_main_running = FALSE
    /\ main_loop = FALSE
    /\ dialog = "none"
    /\ macro_file \in InitialLogs
    /\ macro_finished = FALSE
    /\ threads = <<>>
    /\ injected = <<>>

\* OCRDesktopApp.run, lines 66-72: show_gui, or run_macro in the main thread
StartMacros ==
    /\ app_pc = "start"
    /\ IF hide_gui
       THEN IF MacroExists
            THEN /\ threads' = Append(threads, Thread("inline", 0, 0, ""))
                 /\ app_pc' = "inline"
                 /\ UNCHANGED mgr_shown
            ELSE /\ app_pc' = "wait"
                 /\ UNCHANGED <<threads, mgr_shown>>
       ELSE IF MacroExists
            THEN /\ mgr_shown' = TRUE
                 /\ app_pc' = "manager"
                 /\ UNCHANGED threads
            ELSE /\ app_pc' = "wait"
                 /\ UNCHANGED <<threads, mgr_shown>>
    /\ UNCHANGED text_vars
    /\ UNCHANGED color_vars
    /\ UNCHANGED load_vars
    /\ UNCHANGED <<pyatspi, preclick_active, save_to_macro, keyboard_overlay_active,
                   listener, last_event, nkeys, session_armed, visible,
                   gtk_main_running, main_loop, dialog, macro_file, macro_finished,
                   injected, hide_gui>>

\* run_macro called by OCRDesktopApp.run has returned, or has raised
InlineReturn ==
    /\ app_pc = "inline"
    /\ \E t \in DOMAIN threads :
          /\ threads[t].kind = "inline"
          /\ threads[t].pc \in {"done", "raised"}
          /\ app_pc' = IF threads[t].pc = "done" THEN "wait" ELSE "crashed"
    /\ UNCHANGED text_vars
    /\ UNCHANGED color_vars
    /\ UNCHANGED load_vars
    /\ UNCHANGED ctrl_vars
    /\ UNCHANGED <<hide_gui, mgr_shown>>

\* a _cancel that sets finished whatever its argument
ManagerCancelFinished(set_finished) ==
    /\ mgr_shown' = FALSE
    /\ macro_finished' = TRUE
    /\ app_pc' = "wait"

\* MacroManager._cancel(set_finished): hide, set finished, Gtk.main_quit
ManagerCancel(set_finished) ==
    /\ mgr_shown' = FALSE
    /\ macro_finished' = IF set_finished THEN TRUE ELSE macro_finished
    /\ app_pc' = "wait"

\* MacroManager._on_run_macro: the Run button or item of the startup manager
ManagerRun ==
    /\ app_pc = "manager"
    /\ threads' = Append(threads, Thread("prerun", 0, 0, ""))
    /\ ManagerCancel(FALSE)
    /\ UNCHANGED text_vars
    /\ UNCHANGED color_vars
    /\ UNCHANGED load_vars
    /\ UNCHANGED <<pyatspi, preclick_active, save_to_macro, keyboard_overlay_active,
                   listener, last_event, nkeys, session_armed, visible,
                   gtk_main_running, main_loop, dialog, macro_file, injected,
                   hide_gui>>

\* MacroManager._on_delete_macro: the Unload button (close) or item (not close)
ManagerDelete(close) ==
    /\ app_pc = "manager"
    /\ macro_file' = NoFile
    /\ IF close THEN ManagerCancel(TRUE)
       ELSE UNCHANGED <<mgr_shown, macro_finished, app_pc>>
    /\ UNCHANGED text_vars
    /\ UNCHANGED color_vars
    /\ UNCHANGED load_vars
    /\ UNCHANGED <<pyatspi, preclick_active, save_to_macro, keyboard_overlay_active,
                   listener, last_event, nkeys, session_armed, visible,
                   gtk_main_running, main_loop, dialog, threads, injected, hide_gui>>

\* MacroManager._on_cancel: the Cancel button or the window's delete-event
ManagerOnCancel ==
    /\ app_pc = "manager"
    /\ ManagerCancel(TRUE)
    /\ UNCHANGED text_vars
    /\ UNCHANGED color_vars
    /\ UNCHANGED load_vars
    /\ UNCHANGED <<pyatspi, preclick_active, save_to_macro, keyboard_overlay_active,
                   listener, last_event, nkeys, session_armed, visible,
                   gtk_main_running, main_loop, dialog, macro_file, threads,
                   injected, hide_gui>>

\* MacroManager._on_load_macro of the startup manager
ManagerLoad(chosen) ==
    /\ app_pc = "manager"
    /\ macro_file' = chosen
    /\ UNCHANGED text_vars
    /\ UNCHANGED color_vars
    /\ UNCHANGED load_vars
    /\ UNCHANGED app_vars
    /\ UNCHANGED <<pyatspi, preclick_active, save_to_macro, keyboard_overlay_active,
                   listener, last_event, nkeys, session_armed, visible,
                   gtk_main_running, main_loop, dialog, macro_finished, threads,
                   injected>>

\* a loop that polls for the flag alone
KeepWaitingForFlag == ~macro_finished

\* the condition of wait_for_finish's loop
KeepWaiting == ~macro_finished /\ MacroExists

\* MacroManager.wait_for_finish: one evaluation of the loop's condition (and
\* the sleep of 0.3 s when it holds)
WaitPoll ==
    /\ app_pc = "wait"
    /\ app_pc' = IF KeepWaiting THEN "wait" ELSE "reset"
    /\ UNCHANGED text_vars
    /\ UNCHANGED color_vars
    /\ UNCHANGED load_vars
    /\ UNCHANGED ctrl_vars
    /\ UNCHANGED <<hide_gui, mgr_shown>>

\* every task started so far has begun to run
Settled == \A t \in DOMAIN threads : threads[t].pc # "start"

\* MacroManager.wait_for_finish: after the loop, sleep 0.2 s and reset finished.
\* The sleep yields the processor: a task started before it has begun to run
\* when it returns.
WaitReset ==
    /\ app_pc = "reset"
    /\ Settled
    /\ macro_finished' = FALSE
    /\ app_pc' = "capture"
    /\ UNCHANGED text_vars
    /\ UNCHANGED color_vars
    /\ UNCHANGED load_vars
    /\ UNCHANGED <<pyatspi, preclick_active, save_to_macro, keyboard_overlay_active,
                   listener, last_event, nkeys, session_armed, visible,
                   gtk_main_running, main_loop, dialog, macro_file, threads,
                   injected, hide_gui, mgr_shown>>

\* OCRDesktopApp.run, lines 83-89: the capture fails, or the results are put
\* out (-n), or the main window is constructed and shown
CaptureAndShow(captured) ==
    /\ app_pc = "capture"
    /\ IF captured /\ ~hide_gui
       THEN /\ app_pc' = "window"
            /\ preclick_active' = FALSE
            /\ save_to_macro' = FALSE
            /\ keyboard_overlay_active' = FALSE
            /\ visible' = TRUE
            /\ gtk_main_running' = TRUE
            /\ main_loop' = TRUE
       ELSE /\ app_pc' = "exit"
            /\ UNCHANGED <<preclick_active, save_to_macro, keyboard_overlay_active,
                           visible, gtk_main_running, main_loop>>
    /\ UNCHANGED text_vars
    /\ UNCHANGED color_vars
    /\ UNCHANGED load_vars
    /\ UNCHANGED <<pyatspi, listener, last_event, nkeys, session_armed, dialog,
                   macro_file, macro_finished, threads, injected, hide_gui, mgr_shown>>

\* show_window has returned: OCRDesktopApp.run ends and the process with it
WindowReturn ==
    /\ app_pc = "window"
    /\ ~main_loop
    /\ app_pc' = "exit"
    /\ UNCHANGED text_vars
    /\ UNCHANGED color_vars
    /\ UNCHANGED load_vars
    /\ UNCHANGED ctrl_vars
    /\ UNCHANGED <<hide_gui, mgr_shown>>

----------------------------------------------------------------------------
(* The specifications *)

TextNext ==
    \/ OcrImage
    \/ \E w \in Records : OcrBox(w)
    \/ \E o \in Offsets, inc \in BOOLEAN : ProcessImages(o[1], o[2], inc)

\* the reconstruction pass, no window shown yet
InitText == TextInit /\ CtrlNone /\ AppOcr /\ ColorOff /\ LoadOff

SpecText == InitText /\ [][TextNext]_vars

\* one session of the main window, nothing being reconstructed
Init == TextInit /\ CtrlInit /\ AppShown /\ ColorOff /\ LoadOff

Next ==
    \/ SetSaveToMacro
    \/ \E sel \in Selections, e \in MouseEvents : OnClick(sel, e)
    \/ \E sel \in Selections : RouteToPoint(sel)
    \/ \E t \in DOMAIN threads : ThreadPointerStart(t)
    \/ \E t \in DOMAIN threads : ThreadPointerInject(t)
    \/ SendKeyMode
    \/ \E ty \in EventTypes, str \in EventStrings : OnSendKey(ty, str)
    \/ OnRunMacro
    \/ DismissDialog
    \/ \E t \in DOMAIN threads : ThreadRunStart(t)
    \/ \E t \in DOMAIN threads : ThreadRunLine(t)
    \/ \E t \in DOMAIN threads : ThreadRunWake(t)
    \/ OnDeleteMacro
    \/ \E chosen \in LoadableLogs : OnLoadMacro(chosen)
    \/ CloseWindow

Spec == Init /\ [][Next]_vars

\* the calls of get_color_string of one run, no window shown yet
InitColor == TextInit /\ CtrlNone /\ AppOcr /\ ColorInit /\ LoadOff

NextColor == \E c \in Calls : CallGetColorString(c)

SpecColor == InitColor /\ [][NextColor]_vars

\* the -m options of the command line, before OCRDesktopApp.run goes on
InitLoad == TextInit /\ AppInit /\ ColorOff /\ LoadInit

NextLoad == \E arg \in Paths : ParseMacroOption(arg)

SpecLoad == InitLoad /\ [][NextLoad]_vars

\* the whole run of the program: startup, then the session of the main window
InitApp == TextInit /\ AppInit /\ ColorOff /\ LoadOff

NextApp ==
    \/ StartMacros
    \/ InlineReturn
    \/ ManagerRun
    \/ \E close \in BOOLEAN : ManagerDelete(close)
    \/ ManagerOnCancel
    \/ \E chosen \in LoadableLogs : ManagerLoad(chosen)
    \/ WaitPoll
    \/ WaitReset
    \/ \E captured \in BOOLEAN : CaptureAndShow(captured)
    \/ WindowReturn
    \/ Next

SpecApp == InitApp /\ [][NextApp]_vars

\* the program up to the construction of the main window: OCRDesktopApp.run
\* with the startup manager and the task it starts
NextStartup ==
    \/ StartMacros
    \/ InlineReturn
    \/ ManagerRun
    \/ \E close \in BOOLEAN : ManagerDelete(close)
    \/ ManagerOnCancel
    \/ \E chosen \in LoadableLogs : ManagerLoad(chosen)
    \/ WaitPoll
    \/ WaitReset
    \/ \E captured \in BOOLEAN : CaptureAndShow(captured)
    \/ \E t \in DOMAIN threads : ThreadRunStart(t)
    \/ \E t \in DOMAIN threads : ThreadRunLine(t)
    \/ \E t \in DOMAIN threads : ThreadRunWake(t)

SpecStartup == InitApp /\ [][NextStartup]_vars

\* a started task runs on: the interpreter schedules every runnable thread
TaskStep ==
    \E t \in DOMAIN threads :
        \/ ThreadPointerStart(t)
        \/ ThreadPointerInject(t)
        \/ ThreadRunStart(t)
        \/ ThreadRunLine(t)
        \/ ThreadRunWake(t)

\* the main thread runs on where it waits for nothing but time
MainStep == StartMacros \/ InlineReturn \/ WaitPoll \/ WaitReset

FairSpecStartup == SpecStartup /\ WF_vars(TaskStep) /\ WF_vars(MainStep)

FairSpecApp == SpecApp /\ WF_vars(TaskStep) /\ WF_vars(MainStep)

----------------------------------------------------------------------------
(* Properties of the reconstruction pass *)

\* the records of one image that are not skipped
Emitted(img) == SelectSeq(img, LAMBDA w : ~IsSkipped(w.text))

RECURSIVE AllEmitted(_)
AllEmitted(imgs) ==
    IF imgs = <<>> THEN <<>> ELSE Emitted(Head(imgs)) \o AllEmitted(Tail(imgs))

\* the texts of the records em, a newline between two records whose tuples
\* differ and a space between two whose tuples are equal
RECURSIVE Joined(_)
Joined(em) ==
    IF em = <<>> THEN <<>>
    ELSE IF Len(em) = 1 THEN em[1].text
    ELSE em[1].text
         \o (IF TupleOf(em[1]) # TupleOf(em[2]) THEN <<NL>> ELSE <<SP>>)
         \o Joined(Tail(em))

Count(s, c) == Cardinality({i \in 1..Len(s) : s[i] = c})

DifferingPairs(em) ==
    Cardinality({i \in 1..(Len(em) - 1) : TupleOf(em[i]) # TupleOf(em[i + 1])})

\* C1: for one image whose texts are all non-empty and free of whitespace, the
\* ReconstructedText is the texts in input order, a newline between two
\* consecutive ones whose tuples differ, a space otherwise, and nothing else
C1_ExactText ==
    (ocr_pc = "done" /\ Len(images) = 1 /\ Emitted(images[1]) = images[1])
        => ocr_text = Joined(images[1])

\* C2: the ReconstructedText has no two consecutive non-newline whitespace
\* characters, no blank line (leading, inner or trailing) and no trailing newline
C2_Normalized ==
    ocr_pc = "done" =>
        /\ \A i \in 1..(Len(ocr_text) - 1) :
               ~(IsBlank(ocr_text[i]) /\ IsBlank(ocr_text[i + 1]))
        /\ \A i \in 1..(Len(ocr_text) - 1) :
               ~(ocr_text[i] = NL /\ ocr_text[i + 1] = NL)
        /\ ocr_text # <<>> => (ocr_text[1] # NL /\ ocr_text[Len(ocr_text)] # NL)

\* C3: for one image, the number of line breaks of the ReconstructedText is the
\* number of adjacent pairs of emitted records whose tuples differ, each record
\* being compared with the previous emitted one
C3_LineBreakCount ==
    (ocr_pc = "done" /\ Len(images) = 1)
        => Count(ocr_text, NL) = DifferingPairs(Emitted(images[1]))

\* an image with a skipped record between two emitted records of different
\* lines, the skipped one on the line of the second
C3_Witness ==
    /\ ocr_pc = "done"
    /\ Len(images) = 1
    /\ Len(images[1]) = 3
    /\ ~IsSkipped(images[1][1].text)
    /\ IsSkipped(images[1][2].text)
    /\ ~IsSkipped(images[1][3].text)
    /\ TupleOf(images[1][1]) # TupleOf(images[1][3])
    /\ TupleOf(images[1][2]) = TupleOf(images[1][3])
    /\ Count(ocr_text, NL) = 1

\* C4: every entry of the word list carries the screen-space anchor
\* ((left + width/2) / scaleFactor + offsetX, (top + height/2) / scaleFactor + offsetY)
\* (both sides multiplied by 2 * scaleFactor)
C4_ScreenAnchor ==
    (ocr_pc = "done" /\ call.include_word_list) =>
        LET em == AllEmitted(images)
        IN /\ Len(word_list) = Len(em)
           /\ \A i \in 1..Len(word_list) :
                 /\ 2 * ScaleFactor * (word_list[i].x_pos - call.offset_x)
                        = 2 * em[i].left + em[i].width
                 /\ 2 * ScaleFactor * (word_list[i].y_pos - call.offset_y)
                        = 2 * em[i].top + em[i].height

----------------------------------------------------------------------------
(* Properties of the controller, the recorder and the player *)

F4Pressed == [type |-> "pressed", event_string |-> "F4"]

\* the step delivers a key event to the listener
KeyDelivered == nkeys' = nkeys + 1

\* the lines of the log
Lines == macro_file.lines

\* C5: a pointer action is dispatched by the armed flag alone: armed, it appends
\* `c,delay,0.9` and `m,<x>,<y>,<action>` to the log and injects nothing; not
\* armed, it injects the pointer event and leaves the log as it is (the input
\* interface being there)
C5_PointerDispatch ==
    [][\A t \in DOMAIN threads :
         (/\ pyatspi
          /\ threads[t].kind \in {"click", "route"}
          /\ threads'[t].pc # threads[t].pc)
         => LET th == threads[t]
                action == IF th.kind = "click" THEN th.mouse_event ELSE "None"
                event == IF th.kind = "click" THEN th.mouse_event ELSE "abs"
            IN IF th.pc = "start"
               THEN IF save_to_macro
                    THEN /\ macro_file' =
                              [exists |-> TRUE,
                               lines |-> Lines \o
                                   << <<"c", ",", "delay", ",", "0.9">>,
                                      <<"m", ",", ToString(th.x), ",", ToString(th.y),
                                        ",", action>> >>]
                         /\ injected' = injected
                         /\ threads'[t].pc = "done"
                    ELSE /\ macro_file' = macro_file
                         /\ threads'[t].pc = "sleep"
                         /\ SelectSeq(injected', LAMBDA e : e.op # "sleep")
                                = SelectSeq(injected, LAMBDA e : e.op # "sleep")
               ELSE /\ ~save_to_macro
                    /\ macro_file' = macro_file
                    /\ injected' = Append(injected,
                           [op |-> "mouse", n1 |-> th.x, n2 |-> th.y, str |-> event])
                    /\ threads'[t].pc = "done"
      ]_vars

\* a left click at (100, 200) recorded while armed, into a log that did not exist
C5_Witness ==
    /\ save_to_macro
    /\ \E t \in DOMAIN threads : threads[t].kind = "click" /\ threads[t].pc = "done"
    /\ macro_file = [exists |-> TRUE,
                     lines |-> << <<"c", ",", "delay", ",", "0.9">>,
                                  <<"m", ",", "100", ",", "200", ",", "b1c">> >>]
    /\ injected = <<>>

\* C6: in send-key mode a key event other than the sentinel is forwarded to the
\* input interface and not appended to the log when the controller is not armed,
\* and appended and not forwarded when it is armed
C6_KeyDispatch ==
    [][(KeyDelivered /\ pyatspi /\ last_event' # F4Pressed)
         => IF save_to_macro
            THEN /\ Len(macro_file'.lines) = Len(Lines) + 1
                 /\ injected' = injected
            ELSE /\ macro_file' = macro_file
                 /\ Len(injected') = Len(injected) + 1
                 /\ injected'[Len(injected')].op = "key"
                 /\ injected'[Len(injected')].str = last_event'.event_string
      ]_vars

\* C7: a press of F4 in send-key mode deregisters the listener and leaves the
\* mode, armed or not, and is neither appended to the log nor forwarded
C7_Sentinel ==
    [][(KeyDelivered /\ last_event' = F4Pressed)
         => /\ ~listener'
            /\ ~keyboard_overlay_active'
            /\ macro_file' = macro_file
            /\ injected' = injected
      ]_vars

\* F4 pressed while armed, after one key that was recorded
C7_Witness ==
    /\ last_event = F4Pressed
    /\ nkeys = 2
    /\ save_to_macro
    /\ ~listener
    /\ ~keyboard_overlay_active
    /\ macro_file.exists /\ Len(Lines) = 1 /\ Lines[1][1] = "k"
    /\ injected = <<>>

\* the step is the sentinel ending a send-key session
SentinelStep == KeyDelivered /\ listener /\ last_event' = F4Pressed

IsDelayLine(line) ==
    Len(line) = 5 /\ line[1] = "c" /\ line[2] = "," /\ line[3] = "delay"
        /\ line[4] = "," /\ line[5] \in {"0.1", "0.9"}

IsPointerLine(line) ==
    Len(line) = 7 /\ line[1] = "m" /\ line[2] = "," /\ IsInt(line[3])
        /\ line[4] = "," /\ IsInt(line[5]) /\ line[6] = ","

\* what playing one such line is to do
ExpectedOf(line) ==
    IF IsDelayLine(line)
    THEN <<[op |-> "sleep", n1 |-> TenthsOf(line[5]), n2 |-> 0, str |-> ""]>>
    ELSE <<[op |-> "mouse", n1 |-> IntOf(line[3]), n2 |-> IntOf(line[5]), str |-> "abs"]>>
         \o (IF line[7] # "None"
             THEN <<[op |-> "mouse", n1 |-> IntOf(line[3]), n2 |-> IntOf(line[5]),
                     str |-> line[7]]>>
             ELSE <<>>)

RECURSIVE ExpectedAll(_, _)
ExpectedAll(lines, n) ==
    IF n = 0 THEN <<>> ELSE ExpectedAll(lines, n - 1) \o ExpectedOf(lines[n])

DelayOrPointerPrefix(lines, n) ==
    \A j \in 1..n : IsDelayLine(lines[j]) \/ IsPointerLine(lines[j])

\* C10: playback executes the lines in file order, each once: a delay line
\* pauses the playing task, a pointer line injects an absolute move and then the
\* action (no second event for 'None'); finished is set only after the last line
C10_PlaybackOrder ==
    /\ \A t \in DOMAIN threads :
         (pyatspi /\ threads[t].kind = "run" /\ threads[t].i >= 1)
         => LET th == threads[t]
                n == IF th.pc = "delay" THEN th.i ELSE th.i - 1
            IN /\ th.i <= Len(th.lines) + 1
               /\ DelayOrPointerPrefix(th.lines, n)
                    => Drop(injected, th.base) = ExpectedAll(th.lines, n)
               /\ th.pc = "done" => th.i = Len(th.lines) + 1
    /\ macro_finished
         => \E t \in DOMAIN threads :
               /\ threads[t].kind = "run"
               /\ threads[t].pc = "done"
               /\ threads[t].i = Len(threads[t].lines) + 1

\* `c,delay,0.1` then `m,50,60,b1c` played: the pause, the move, the click, finished
C10_Witness ==
    /\ pyatspi
    /\ macro_finished
    /\ \E t \in DOMAIN threads :
          /\ threads[t].kind = "run"
          /\ threads[t].pc = "done"
          /\ threads[t].lines = << <<"c", ",", "delay", ",", "0.1">>,
                                   <<"m", ",", "50", ",", "60", ",", "b1c">> >>
    /\ injected = <<[op |-> "sleep", n1 |-> 1, n2 |-> 0, str |-> ""],
                    [op |-> "mouse", n1 |-> 50, n2 |-> 60, str |-> "abs"],
                    [op |-> "mouse", n1 |-> 50, n2 |-> 60, str |-> "b1c"]>>

----------------------------------------------------------------------------
(* Properties of the whole run: completion, the waiter, exclusion *)

\* a task of this kind has opened the log and is playing it
Playing(kind) ==
    \E t \in DOMAIN threads :
        threads[t].kind = kind /\ threads[t].pc \in {"read", "delay"}

\* C11: whenever a run has opened an existing log, whatever its lines, the
\* playing task eventually sets finished, and the controller is released: the
\* hidden window's main loop is quit, the waiter of the startup returns
C11_RunCompletes ==
    /\ Playing("run") ~> (macro_finished /\ ~main_loop)
    /\ Playing("prerun") ~> (app_pc = "capture")

\* a well-formed key line: `k,<keycode>,<symbol>,<phase>`, the symbol maybe empty
IsKeyLine(line) ==
    /\ Len(line) \in {6, 7}
    /\ line[1] = "k" /\ line[2] = "," /\ IsInt(line[3]) /\ line[4] = ","
    /\ IF Len(line) = 7
       THEN line[5] # "," /\ line[6] = "," /\ IsInt(line[7])
       ELSE line[5] = "," /\ IsInt(line[6])

WellFormed(line) == IsDelayLine(line) \/ IsPointerLine(line) \/ IsKeyLine(line)

\* C12: during playback a malformed or unrecognized line is skipped without
\* raising: nothing is injected for it and playback goes on with the next line
C12_MalformedSkipped ==
    [][\A t \in DOMAIN threads :
         (/\ threads[t].kind \in {"run", "prerun", "inline"}
          /\ threads[t].pc = "read"
          /\ threads[t].i <= Len(threads[t].lines)
          /\ ~WellFormed(threads[t].lines[threads[t].i])
          /\ threads'[t] # threads[t])
         => /\ threads'[t].pc = "read"
            /\ threads'[t].i = threads[t].i + 1
            /\ injected' = injected
      ]_vars

\* the symbol and the phase of a well-formed key line
SymbolOf(line) == IF Len(line) = 7 THEN line[5] ELSE ""
PhaseOf(line) == IntOf(line[Len(line)])

\* C13: a key line with keycode 0 and a symbol is injected with the keycode
\* the keysym table holds for the symbol; with keycode 0 and no symbol it
\* injects nothing; either way playback goes on with the next line
C13_KeycodeZero ==
    [][\A t \in DOMAIN threads :
         (/\ pyatspi
          /\ threads[t].kind \in {"run", "prerun", "inline"}
          /\ threads[t].pc = "read"
          /\ threads[t].i <= Len(threads[t].lines)
          /\ IsKeyLine(threads[t].lines[threads[t].i])
          /\ threads[t].lines[threads[t].i][3] = "0"
          /\ threads'[t] # threads[t])
         => LET line == threads[t].lines[threads[t].i]
            IN /\ threads'[t].pc = "read"
               /\ threads'[t].i = threads[t].i + 1
               /\ injected' =
                    IF SymbolOf(line) = "" THEN injected
                    ELSE Append(injected,
                                [op |-> "key", n1 |-> KEY_CODE(SymbolOf(line)),
                                 n2 |-> PhaseOf(line), str |-> SymbolOf(line)])
      ]_vars

\* `k,0,,1` then `k,0,a,2` played to the end: only the second was injected,
\* with the keycode 97 of "a"
C13_Witness ==
    /\ pyatspi
    /\ macro_finished
    /\ \E t \in DOMAIN threads :
          /\ threads[t].pc = "done"
          /\ Len(threads[t].lines) = 3
          /\ threads[t].lines[2] = <<"k", ",", "0", ",", ",", "1">>
          /\ threads[t].lines[3] = <<"k", ",", "0", ",", "a", ",", "2">>
          /\ Len(injected) = threads[t].base + 2
          /\ injected[Len(injected)] = [op |-> "key", n1 |-> 97, n2 |-> 2, str |-> "a"]

\* C14: the waiter leaves its loop only on a poll that finds finished set or the
\* log absent, it has reset finished to FALSE when it returns, and a waiter
\* for which finished is set or the log is absent does return
C14_Waiter ==
    /\ [][((app_pc = "wait" /\ app_pc' # "wait")
               => (app_pc' = "reset" /\ (macro_finished \/ ~MacroExists)))
          /\ ((app_pc = "reset" /\ app_pc' # "reset")
               => (app_pc' = "capture" /\ ~macro_finished'))]_vars
    /\ (app_pc = "wait" /\ (macro_finished \/ ~MacroExists))
           ~> (app_pc = "capture" /\ ~macro_finished)

\* the waiter has returned after the startup manager's task played a log to its end
C14_Witness ==
    /\ app_pc = "capture"
    /\ ~macro_finished
    /\ MacroExists
    /\ \E t \in DOMAIN threads : threads[t].kind = "prerun" /\ threads[t].pc = "done"

\* the waiter has returned because the log is gone, finished never set
C14_WitnessAbsent ==
    /\ app_pc = "capture"
    /\ ~MacroExists
    /\ \E t \in DOMAIN threads : threads[t].kind = "prerun" /\ threads[t].pc = "done"

\* the playback task t has opened the log and has not yet read its last line
Reading(t) ==
    /\ threads[t].kind \in RunKinds
    /\ threads[t].pc \in {"read", "delay"}
    /\ threads[t].i <= Len(threads[t].lines)

\* C15: recording and playback are mutually exclusive: while a playback task
\* is between opening the log and reading its last line, no step appends to
\* the log, replaces it or deletes it
C15_NoWriteDuringPlayback ==
    [][(\E t \in DOMAIN threads : Reading(t)) => macro_file' = macro_file]_vars

\* the background tasks that have been started and have not ended
InFlight ==
    {t \in DOMAIN threads :
        /\ threads[t].kind \in {"click", "route", "run", "prerun"}
        /\ threads[t].pc \notin {"done", "raised"}}

\* C16: at most one background task is in flight at any time, whatever the
\* sequence of triggers (clicks, route-to, Run in the main window, Run in the
\* startup manager)
C16_OneTask == Cardinality(InFlight) <= 1

\* a second task has been started after the first one ended: the startup
\* manager's task played the log, then a click of the main window is in flight
C16_Witness ==
    /\ Cardinality(InFlight) = 1
    /\ \E t \in DOMAIN threads : threads[t].kind = "prerun" /\ threads[t].pc = "done"
    /\ \E t \in InFlight : threads[t].kind = "click" /\ threads[t].pc = "sleep"

\* a step of Load, in the main window or in the startup manager
LoadStep(chosen) == OnLoadMacro(chosen) \/ ManagerLoad(chosen)

\* a step of Unload, in the main window or in the startup manager
UnloadStep == OnDeleteMacro \/ \E close \in BOOLEAN : ManagerDelete(close)

\* a playback task that starts while no log exists
StartsOnNoLog(t) ==
    /\ t \in DOMAIN threads
    /\ threads[t].kind \in RunKinds
    /\ threads[t].pc = "start"
    /\ threads'[t].pc # "start"
    /\ ~MacroExists

\* C17: there is one active log: a load makes its contents exactly those of
\* the chosen file, after an unload no log exists, and a run that follows
\* opens nothing, injects nothing and leaves finished and the log alone
C17_LoadUnload ==
    [][/\ \A chosen \in LoadableLogs : LoadStep(chosen) => macro_file' = chosen
       /\ UnloadStep => ~MacroExists'
       /\ (~MacroExists /\ OnRunMacro) => (threads' = threads /\ injected' = injected)
       /\ \A t \in DOMAIN threads :
             StartsOnNoLog(t) => /\ threads'[t].pc = "done"
                                 /\ threads'[t].lines = <<>>
                                 /\ injected' = injected
                                 /\ macro_finished' = macro_finished
                                 /\ macro_file' = macro_file]_vars

\* Unload then Run in the startup manager: the task ended without opening a
\* log; in the main window a log of two lines was then loaded
C17_Witness ==
    /\ app_pc = "window"
    /\ \E t \in DOMAIN threads :
          threads[t].kind = "prerun" /\ threads[t].pc = "done" /\ threads[t].i = 0
    /\ injected = <<>>
    /\ MacroExists
    /\ Len(macro_file.lines) = 2

\* C18: the overlay flag is set exactly while the key listener is registered,
\* the listener is deregistered only by the sentinel, and no step quits the
\* main loop while the listener is still registered
C18_SentinelOnlyExit ==
    /\ [](keyboard_overlay_active = listener)
    /\ [][/\ (listener /\ ~listener') => last_event' = F4Pressed
          /\ (listener /\ main_loop) => main_loop']_vars

\* C19: a log that exists and holds no line plays as immediate completion:
\* opening it injects nothing, and the first read ends the playback with
\* finished set and nothing injected
C19_EmptyLog ==
    [][\A t \in DOMAIN threads :
          /\ (/\ threads[t].kind \in RunKinds
              /\ threads[t].pc = "start"
              /\ macro_file = File(<<>>)
              /\ threads'[t] # threads[t])
             => (threads'[t].pc = "read" /\ injected' = injected)
          /\ (/\ threads[t].kind \in RunKinds
              /\ threads[t].pc = "read"
              /\ Seen(threads[t]) = <<>>
              /\ threads'[t] # threads[t])
             => (threads'[t].pc = "done" /\ macro_finished' /\ injected' = injected)
      ]_vars

\* Run on an empty log has ended: finished is set and nothing was injected
C19_Witness ==
    /\ macro_file = File(<<>>)
    /\ macro_finished
    /\ injected = <<>>
    /\ \E t \in DOMAIN threads :
          /\ threads[t].kind = "run"
          /\ threads[t].pc = "done"
          /\ threads[t].i = 1
          /\ threads[t].lines = <<>>

\* the step changes the log and is neither a load nor an unload: it records
RecordingStep ==
    /\ macro_file' # macro_file
    /\ ~(\E chosen \in LoadableLogs : LoadStep(chosen))
    /\ ~UnloadStep

\* the lines of the action that the step records: one key line for a key
\* event, the delay line and the pointer line for a pointer action
RecordedLines ==
    IF KeyDelivered
    THEN {<<JoinComma(<<"k", "0", last_event'.event_string,
                        ToString(EventTypeId(last_event'.type))>>)>>}
    ELSE {<<DelayLine,
            JoinComma(<<"m", ToString(threads[t].x), ToString(threads[t].y),
                        threads[t].mouse_event>>)>> :
            t \in {u \in DOMAIN threads : threads[u].pc = "start" /\ threads'[u].pc = "done"}}

\* s is a prefix of t
PrefixOf(s, t) == Len(s) <= Len(t) /\ SubSeq(t, 1, Len(s)) = s

\* C20: the log is append-only during recording: what it held before a
\* recording step is a prefix of what it holds after, and a first recording
\* while no log exists creates a log of exactly that action's lines
C20_AppendOnly ==
    [][RecordingStep =>
          /\ MacroExists'
          /\ PrefixOf(macro_file.lines, macro_file'.lines)
          /\ \E rec \in RecordedLines : macro_file'.lines = macro_file.lines \o rec
          /\ ~MacroExists => macro_file'.lines \in RecordedLines]_vars

\* a key recorded while no log existed has created a log of its one line, and
\* a click recorded after it has appended its two lines
C20_Witness ==
    /\ MacroExists
    /\ Len(macro_file.lines) = 3
    /\ macro_file.lines[1] = JoinComma(<<"k", "0", "a", "0">>)
    /\ macro_file.lines[2] = DelayLine
    /\ Len(macro_file.lines[3]) > 0
    /\ macro_file.lines[3][1] = "m"
    /\ \E t \in DOMAIN threads : threads[t].kind = "click" /\ threads[t].pc = "done"

----------------------------------------------------------------------------
(* The colours of a box *)

RECURSIVE SumAmounts(_)
SumAmounts(parts) ==
    IF parts = <<>> THEN 0 ELSE Head(parts).amount + SumAmounts(Tail(parts))

\* the last call reported percentages
Percentages == color_ret.label = "colors" /\ \A i \in 1..Len(color_ret.parts) : color_ret.parts[i].unit = "%"

\* C21: for every box and image the percentages that get_color_string reports
\* sum to at most 100
C21_PercentSum == Percentages => SumAmounts(color_ret.parts) <= 100

\* the last call was made with a box of the OCR engine, and was not refused
Sampled ==
    /\ ncalls > 0
    /\ color_call \in GoodCalls
    /\ enabled /\ scipy_available /\ webcolors_available /\ max_colors >= 1

AreaOf(c) == c.box.width[c.index] * c.box.height[c.index]

\* the names of the pixels of the box, by a search for each value
NamesOf(c) == {NearestName(c.img.pixels[i].color) : i \in 1..Len(c.img.pixels)}

\* the pixels of the box that have the name
RECURSIVE Aggregate(_, _)
Aggregate(pixels, name) ==
    IF pixels = <<>> THEN 0
    ELSE (IF NearestName(Head(pixels).color) = name THEN Head(pixels).count ELSE 0)
         + Aggregate(Tail(pixels), name)

\* the names a part of the output names, in the output's order
Reported == {color_ret.parts[i].name : i \in 1..Len(color_ret.parts)}

\* T is a choice of the top n names of the call by aggregate count
IsTop(T, c, n) ==
    /\ T \subseteq NamesOf(c)
    /\ Cardinality(T) = Min(n, Cardinality(NamesOf(c)))
    /\ \A a \in T, b \in NamesOf(c) \ T :
          Aggregate(c.img.pixels, a) >= Aggregate(c.img.pixels, b)

\* C22: the names considered are the top min(N, number of names) by aggregate
\* count, reported in descending order of count; a name among them whose
\* percentage rounds to 0 is left out, and no name outside them is reported
C22_TopNames ==
    (Sampled /\ AreaOf(color_call) # 0) =>
        /\ \E T \in SUBSET NamesOf(color_call) :
              /\ IsTop(T, color_call, max_colors)
              /\ Reported = {a \in T : Percent(Aggregate(color_call.img.pixels, a),
                                                AreaOf(color_call)) > 0}
        /\ \A i \in 1..Len(color_ret.parts) :
              /\ color_ret.parts[i].unit = "%"
              /\ color_ret.parts[i].amount =
                    Percent(Aggregate(color_call.img.pixels, color_ret.parts[i].name),
                            AreaOf(color_call))
              /\ \A j \in 1..Len(color_ret.parts) :
                    i < j => /\ color_ret.parts[i].name # color_ret.parts[j].name
                             /\ Aggregate(color_call.img.pixels, color_ret.parts[i].name)
                                  >= Aggregate(color_call.img.pixels, color_ret.parts[j].name)

\* N = 2 and three names with 248, 1 and 1 of 250 pixels: one part, 99 %
C22_Witness ==
    /\ Sampled
    /\ max_colors = 2
    /\ AreaOf(color_call) = 250
    /\ Cardinality(NamesOf(color_call)) = 3
    /\ Len(color_ret.parts) = 1
    /\ color_ret.parts[1].amount = 99

\* C23: when the box area is zero (detection on, N >= 1) the call reports the
\* names with raw pixel counts instead of percentages
C23_PixelCounts ==
    (Sampled /\ AreaOf(color_call) = 0) =>
        /\ color_ret.label = "colors"
        /\ \A i \in 1..Len(color_ret.parts) : color_ret.parts[i].unit = "pixel"

\* C24: with a maximum of names below 1 every call returns 'unknown', reads
\* no pixel and leaves the cache and the tree as they were
C24_NoNames ==
    [][(ncalls' = ncalls + 1 /\ max_colors < 1) =>
          /\ color_ret'.label = "unknown"
          /\ ~color_ret'.raised
          /\ color_ret'.sampled = 0
          /\ color_cache' = color_cache
          /\ kdt_db' = kdt_db]_vars

\* -x 0: a call on a box of six pixels of three values has ended
C24_Witness ==
    /\ ncalls > 0
    /\ enabled /\ scipy_available /\ webcolors_available
    /\ max_colors = 0
    /\ color_call \in GoodCalls
    /\ Len(color_call.img.pixels) = 3
    /\ color_ret.label = "unknown"

\* the last call was bound to fail: detection off, a library missing, no
\* image, or a box or pixels that make the body raise
Failing ==
    /\ ncalls > 0
    /\ \/ color_call \in BadCalls
       \/ ~enabled
       \/ ~scipy_available
       \/ ~webcolors_available

\* C25: no call of get_color_string raises, and a call that fails returns
\* 'unknown'
C25_NeverRaises ==
    /\ ~color_ret.raised
    /\ Failing => color_ret.label = "unknown"

\* the search raised on a one-band value after a value of three bands had been
\* named: the call returned 'unknown'
C25_Witness ==
    /\ ncalls = 1
    /\ enabled /\ scipy_available /\ webcolors_available /\ max_colors = 3
    /\ color_call.img = MixedImage
    /\ color_ret.label = "unknown"
    /\ color_ret.sampled = 6
    /\ Dark \in DOMAIN color_cache

\* C26: the cache only grows, no key is removed or remapped; every entry maps
\* an RGB value to the name of its nearest reference colour; a lookup answered
\* from the cache gives the name an uncached search gives
C26_Memo ==
    /\ [](\A p \in DOMAIN color_cache :
             /\ Len(p) = 3
             /\ color_cache[p] = NearestName(p)
             /\ RgbToName(p, color_cache, kdt_db).name = RgbToName(p, NoCache, FALSE).name
             /\ RgbToName(p, color_cache, kdt_db).cache = color_cache)
    /\ [][/\ DOMAIN color_cache \subseteq DOMAIN color_cache'
          /\ \A p \in DOMAIN color_cache : color_cache'[p] = color_cache[p]]_vars

\* a second call has added a value to a cache that held others
C26_Witness ==
    /\ ncalls = 2
    /\ Cardinality(DOMAIN color_cache) = 4
    /\ color_call.img.pixels = <<[color |-> Reddish, count |-> 6]>>

----------------------------------------------------------------------------
(* Recording and playing back keys *)

\* the line the recorder appends for a key event with the symbol and the phase
RecordedKeyLine(sym, id) == JoinComma(<<"k", "0", sym, ToString(id)>>)

\* C27: a key line that the recorder wrote plays back as exactly one key event
\* with the recorded symbol and phase, for every symbol the listener can
\* deliver, the field separator included, and playback goes on
C27_KeyRoundTrip ==
    [][\A t \in DOMAIN threads : \A sym \in EventStrings, id \in 0..2 :
          (/\ pyatspi
           /\ threads[t].kind \in RunKinds
           /\ threads[t].pc = "read"
           /\ threads[t].i <= Len(Seen(threads[t]))
           /\ Seen(threads[t])[threads[t].i] = RecordedKeyLine(sym, id)
           /\ threads'[t] # threads[t])
          => /\ threads'[t].pc = "read"
             /\ threads'[t].i = threads[t].i + 1
             /\ Len(injected') = Len(injected) + 1
             /\ injected'[Len(injected')].op = "key"
             /\ injected'[Len(injected')].str = sym
             /\ injected'[Len(injected')].n2 = id
      ]_vars

----------------------------------------------------------------------------
(* The text and the word list *)

\* the whitespace-delimited tokens of a text: its maximal runs of non-whitespace
RECURSIVE TokensLoop(_, _, _)
TokensLoop(s, cur, acc) ==
    IF s = <<>> THEN (IF cur = <<>> THEN acc ELSE Append(acc, cur))
    ELSE IF IsSpace(Head(s))
         THEN TokensLoop(Tail(s), <<>>, IF cur = <<>> THEN acc ELSE Append(acc, cur))
         ELSE TokensLoop(Tail(s), Append(cur, Head(s)), acc)

Tokens(s) == TokensLoop(s, <<>>, <<>>)

\* C28: when the word list is built, the ReconstructedText has as many
\* whitespace-delimited tokens as the word list has entries, and the i-th token
\* is the text of the i-th entry
C28_Aligned ==
    (ocr_pc = "done" /\ call.include_word_list)
        => /\ Len(Tokens(ocr_text)) = Len(word_list)
           /\ \A i \in 1..Len(word_list) : Tokens(ocr_text)[i] = word_list[i].text

----------------------------------------------------------------------------
(* Pointer triggers and the window *)

\* a pointer trigger with the selection: one of the four clicks, or route-to
PointerTrigger(sel) ==
    \/ \E e \in MouseEvents : OnClick(sel, e)
    \/ RouteToPoint(sel)

\* C29: a pointer trigger that hides the window has started a background task,
\* and a trigger issued with no row selected starts no task and leaves the
\* window as it was
C29_HiddenWithTask ==
    [][\A sel \in Selections :
          PointerTrigger(sel) =>
              /\ (visible /\ ~visible') =>
                     /\ Len(threads') = Len(threads) + 1
                     /\ threads'[Len(threads')].kind \in {"click", "route"}
                     /\ threads'[Len(threads')].pc = "start"
              /\ ~sel.has => (visible' = visible /\ threads' = threads)
      ]_vars

----------------------------------------------------------------------------
(* The capture and the startup playback *)

\* the tasks of the startup playback: run_macro called by OCRDesktopApp.run,
\* or the thread started by the startup manager's Run
StartupTasks == {t \in DOMAIN threads : threads[t].kind \in {"inline", "prerun"}}

\* wait_for_finish has returned: the capture is about to begin, or is done
CaptureBegun == app_pc \in {"capture", "window", "exit"}

\* C30: once the capture has begun, and as long as the log exists, the startup
\* playback has finished, so it injects no event any more, whether it ran in
\* the main thread or on the manager's thread; and after a cancel or an
\* unload, which start no task, the capture is reached
C30_CaptureAfterPlayback ==
    /\ [](CaptureBegun /\ MacroExists
             => \A t \in StartupTasks : threads[t].pc = "done")
    /\ (app_pc = "wait" /\ threads = <<>>) ~> (app_pc = "capture")

\* the manager's task has played the log and injected its events, and the
\* capture is about to begin
C30_Witness ==
    /\ app_pc = "capture"
    /\ MacroExists
    /\ injected # <<>>
    /\ \E t \in StartupTasks : threads[t].kind = "prerun" /\ threads[t].pc = "done"

\* run_macro has played the log in the main thread, and the capture is about
\* to begin
C30_WitnessInline ==
    /\ app_pc = "capture"
    /\ MacroExists
    /\ injected # <<>>
    /\ \E t \in StartupTasks : threads[t].kind = "inline" /\ threads[t].pc = "done"

----------------------------------------------------------------------------
(* Recording and playing back pointer actions *)

\* the pointer actions: a click of one of the four kinds, or route-to, which
\* is recorded with the event None
PointerActions ==
    {Thread(IF e = "None" THEN "route" ELSE "click", x, y, e) :
        x \in {50, 100}, y \in {60, 200}, e \in MouseEvents \cup {"None"}}

\* the pointer line the recorder appends for a pointer action
RecordedPointerLine(a) == JoinComma(<<"m", ToString(a.x), ToString(a.y), a.mouse_event>>)

\* C31: an armed pointer action appends the delay line and its pointer line,
\* and playing that pointer line back injects the pointer events that the
\* action injects when it is performed at once, not armed: the same kinds, the
\* same coordinates, the same order
C31_PointerRoundTrip ==
    [][\A t \in DOMAIN threads :
          /\ (/\ pyatspi
              /\ threads[t].kind \in {"click", "route"}
              /\ threads[t].pc = "start"
              /\ save_to_macro
              /\ threads'[t] # threads[t])
             => macro_file'.lines =
                   macro_file.lines \o <<DelayLine, RecordedPointerLine(threads[t])>>
          /\ \A a \in PointerActions :
                (/\ pyatspi
                 /\ threads[t].kind \in RunKinds
                 /\ threads[t].pc = "read"
                 /\ threads[t].i <= Len(Seen(threads[t]))
                 /\ Seen(threads[t])[threads[t].i] = RecordedPointerLine(a)
                 /\ threads'[t] # threads[t])
                => injected' = Append(injected, PointerEvent(a))
      ]_vars

----------------------------------------------------------------------------
(* Loading a log that cannot be loaded *)

\* the last argument of -m
LastArg == load_args[Len(load_args)]

\* C32: load_macro_file called with a path that does not exist, is not a
\* regular file, or is the active log's own path leaves the log as it was, in
\* existence and contents, and raises nothing
C32_LoadFrame ==
    (/\ load_args # <<>>
     /\ ui_available
     /\ \/ ~PathExists(LastArg) /\ ~SameFile(LastArg)
        \/ LastArg = DirPath
        \/ SameFile(LastArg))
        => (macro_file = load_before /\ ~load_raised)

----------------------------------------------------------------------------
(* The armed flag across captures *)

\* a step of a pointer action: the trigger, or a step of its thread
PointerStep ==
    \/ \E sel \in Selections : PointerTrigger(sel)
    \/ \E t \in DOMAIN threads : ThreadPointerStart(t) \/ ThreadPointerInject(t)

\* a step of a key capture: send-key mode is entered, or a key is delivered
KeyStep ==
    \/ SendKeyMode
    \/ \E ty \in EventTypes, str \in EventStrings : OnSendKey(ty, str)

\* a step of Run: the trigger, or a step of the playing thread
RunStep ==
    \/ OnRunMacro
    \/ \E t \in DOMAIN threads : ThreadRunStart(t) \/ ThreadRunLine(t) \/ ThreadRunWake(t)

\* a pointer thread records its action
PointerCapture ==
    \E t \in DOMAIN threads :
        /\ ThreadPointerStart(t)
        /\ pyatspi
        /\ save_to_macro
        /\ macro_file' # macro_file

\* C33: a pointer capture performed while armed leaves the controller armed,
\* and no step of a pointer action, a key capture, run, load or unload changes
\* the armed flag or the preclick toggle
C33_ArmedAcrossCaptures ==
    [][/\ PointerCapture => save_to_macro'
       /\ (\/ PointerStep
           \/ KeyStep
           \/ RunStep
           \/ \E chosen \in LoadableLogs : LoadStep(chosen)
           \/ UnloadStep)
          => (save_to_macro' = save_to_macro /\ preclick_active' = preclick_active)
      ]_vars

\* an armed pointer thread has recorded its click and ended: still armed
C33_Witness ==
    /\ save_to_macro
    /\ preclick_active
    /\ pyatspi
    /\ \E t \in DOMAIN threads :
          /\ threads[t].kind = "click"
          /\ threads[t].pc = "done"
          /\ Len(macro_file.lines) >= 2
          /\ macro_file.lines[Len(macro_file.lines)] = RecordedPointerLine(threads[t])
          /\ macro_file.lines[Len(macro_file.lines) - 1] = DelayLine

----------------------------------------------------------------------------
(* The keycodes of the injected key events *)

\* C34: playback never injects a key event whose keycode is 0: a key line with
\* keycode 0 is resolved to a non-zero keycode through the keysym table or
\* injects nothing, also when its symbol is absent from the table
C34_NoZeroKeycode ==
    \A i \in 1..Len(injected) : injected[i].op = "key" => injected[i].n1 # 0

====
